---------------------------- MODULE Spec2Model ----------------------------
(***************************************************************************)
(* Model of the Star Wars "personajes" serverless API: four Lambda         *)
(* handlers (getPersonaje, crearEntidad, obtenerPersonaje,                 *)
(* listarPersonajes), the DynamoDB service they call and the JavaScript    *)
(* primitives their validation rules rest on.                              *)
(*                                                                         *)
(* JavaScript strings that the code inspects (path ids, body fields) are   *)
(* sequences of one-character strings, so that trim, toLowerCase, Number   *)
(* and parseInt are computed.  Messages that are only searched with        *)
(* String.includes are sequences of text segments; a `${...}` template is  *)
(* the concatenation of its segments.                                      *)
(***************************************************************************)
EXTENDS Integers, Sequences, FiniteSets, TLC

\* ------------------------------------------------------------------------
\* Bounds of the model
\* ------------------------------------------------------------------------

\* wall-clock readings new Date() can return: 1..MaxClock
MaxClock == 2

\* longest path id of the exhaustive id inputs
MaxIdLen == 3

\* longest page-size text of the exhaustive query inputs
MaxLimiteLen == 3

\* longest string of the exhaustive inputs of translateValue
MaxValorLen == 4

\* most fields of an input object of mapPersonajeToEspanol
MaxCampos == 3

\* longest input array of mapPersonajesToEspanol
MaxLista == 3

\* longest url of the exhaustive inputs of extractIdFromUrl
MaxUrlLen == 5

\* ------------------------------------------------------------------------
\* JavaScript values and primitives
\* ------------------------------------------------------------------------

Undefined == [t |-> "undefined"]

Null == [t |-> "null"]

Str(s) == [t |-> "string", v |-> s]

Num(n) == [t |-> "number", v |-> n]

Bool(b) == [t |-> "boolean", v |-> b]

Arr(a) == [t |-> "array", v |-> a]

Obj == [t |-> "object"]

\* the typeof operator
TypeOf(x) ==
  CASE x.t = "undefined" -> "undefined"
    [] x.t = "string" -> "string"
    [] x.t = "number" -> "number"
    [] x.t = "boolean" -> "boolean"
    [] x.t = "function" -> "function"
    [] OTHER -> "object"

IsArray(x) == x.t = "array"

\* ToBoolean: undefined, null, false, 0 and '' are falsy
Truthy(x) ==
  CASE x.t = "undefined" -> FALSE
    [] x.t = "null" -> FALSE
    [] x.t = "string" -> x.v # <<>>
    [] x.t = "number" -> x.v # 0
    [] x.t = "boolean" -> x.v
    [] OTHER -> TRUE

DigitChars == <<"0", "1", "2", "3", "4", "5", "6", "7", "8", "9">>

HexChars == DigitChars \o <<"a", "b", "c", "d", "e", "f">>

UpperChars ==
  <<"A", "B", "C", "D", "E", "F", "G", "H", "I", "J", "K", "L", "M",
    "N", "O", "P", "Q", "R", "S", "T", "U", "V", "W", "X", "Y", "Z">>

LowerChars ==
  <<"a", "b", "c", "d", "e", "f", "g", "h", "i", "j", "k", "l", "m",
    "n", "o", "p", "q", "r", "s", "t", "u", "v", "w", "x", "y", "z">>

InChars(c, chars) == \E i \in 1..Len(chars) : chars[i] = c

PosIn(c, chars) == CHOOSE i \in 1..Len(chars) : chars[i] = c

LowerChar(c) == IF InChars(c, UpperChars) THEN LowerChars[PosIn(c, UpperChars)] ELSE c

\* String.prototype.toLowerCase
ToLowerCase(s) == [i \in 1..Len(s) |-> LowerChar(s[i])]

IsSpace(c) == c \in {" ", "\t", "\n"}

RECURSIVE TrimStart(_)
TrimStart(s) ==
  IF s # <<>> /\ IsSpace(Head(s)) THEN TrimStart(Tail(s)) ELSE s

RECURSIVE TrimEnd(_)
TrimEnd(s) ==
  IF s # <<>> /\ IsSpace(s[Len(s)]) THEN TrimEnd(SubSeq(s, 1, Len(s) - 1)) ELSE s

\* String.prototype.trim
Trim(s) == TrimEnd(TrimStart(s))

AllIn(s, chars) == \A i \in 1..Len(s) : InChars(s[i], chars)

\* index of the first character of s that is in set cs, 0 when there is none
FirstIndex(s, cs) ==
  IF \E i \in 1..Len(s) : s[i] \in cs
    THEN CHOOSE i \in 1..Len(s) : s[i] \in cs /\ \A j \in 1..(i - 1) : s[j] \notin cs
    ELSE 0

StripSign(s) == IF s # <<>> /\ Head(s) \in {"+", "-"} THEN Tail(s) ELSE s

\* StrUnsignedDecimalLiteral without exponent: digits, digits. , digits.digits , .digits
IsMantissa(s) ==
  LET dot == FirstIndex(s, {"."})
      ip == IF dot = 0 THEN s ELSE SubSeq(s, 1, dot - 1)
      fp == IF dot = 0 THEN <<>> ELSE SubSeq(s, dot + 1, Len(s))
  IN /\ AllIn(ip, DigitChars)
     /\ AllIn(fp, DigitChars)
     /\ Len(ip) + Len(fp) > 0

IsExponent(s) == StripSign(s) # <<>> /\ AllIn(StripSign(s), DigitChars)

IsUnsignedDecimal(s) ==
  LET e == FirstIndex(s, {"e", "E"})
  IN IF e = 0
       THEN IsMantissa(s)
       ELSE IsMantissa(SubSeq(s, 1, e - 1)) /\ IsExponent(SubSeq(s, e + 1, Len(s)))

IsHexLiteral(s) ==
  /\ Len(s) >= 3
  /\ s[1] = "0"
  /\ s[2] \in {"x", "X"}
  /\ AllIn(ToLowerCase(SubSeq(s, 3, Len(s))), HexChars)

InfinityChars == <<"I", "n", "f", "i", "n", "i", "t", "y">>

\* StringToNumber(s) is NaN: s is not whitespace-only and is not a StringNumericLiteral
StringIsNaN(s) ==
  LET t == Trim(s)
  IN /\ t # <<>>
     /\ ~IsHexLiteral(t)
     /\ StripSign(t) # InfinityChars
     /\ ~IsUnsignedDecimal(StripSign(t))

RECURSIVE DigitsValue(_, _)
DigitsValue(s, radix) ==
  IF s = <<>> THEN 0
  ELSE DigitsValue(SubSeq(s, 1, Len(s) - 1), radix) * radix
       + (PosIn(LowerChar(s[Len(s)]), HexChars) - 1)

\* the longest prefix of s made of digits of the radix
DigitPrefix(s, radix) ==
  LET bad == {i \in 1..Len(s) :
                \/ ~InChars(LowerChar(s[i]), HexChars)
                \/ PosIn(LowerChar(s[i]), HexChars) > radix}
  IN IF bad = {} THEN s
     ELSE SubSeq(s, 1, (CHOOSE i \in bad : \A j \in bad : i <= j) - 1)

\* parseInt(string, radix); radix 0 stands for the omitted radix.
\* The result is [nan |-> TRUE] or [nan |-> FALSE, v |-> integer].
ParseInt(s, radix) ==
  LET t == TrimStart(s)
      neg == t # <<>> /\ Head(t) = "-"
      u == StripSign(t)
      hex == radix \in {0, 16} /\ Len(u) >= 2 /\ u[1] = "0" /\ u[2] \in {"x", "X"}
      r == IF hex THEN 16 ELSE IF radix = 0 THEN 10 ELSE radix
      w == DigitPrefix(IF hex THEN SubSeq(u, 3, Len(u)) ELSE u, r)
  IN IF w = <<>> THEN [nan |-> TRUE]
     ELSE [nan |-> FALSE, v |-> IF neg THEN 0 - DigitsValue(w, r) ELSE DigitsValue(w, r)]

\* Array.prototype.toString of a JSON array, as far as Number() needs it:
\* the text of a one-element array is the text of its element
RECURSIVE ValueIsNaN(_)
\* the global isNaN(x): Number(x) is NaN
ValueIsNaN(x) ==
  CASE x.t = "undefined" -> TRUE
    [] x.t = "null" -> FALSE
    [] x.t = "boolean" -> FALSE
    [] x.t = "number" -> FALSE
    [] x.t = "string" -> StringIsNaN(x.v)
    [] x.t = "array" ->
         IF Len(x.v) = 0 THEN FALSE
         ELSE IF Len(x.v) = 1
           THEN (IF x.v[1].t \in {"null", "undefined"} THEN FALSE
                 ELSE IF x.v[1].t = "boolean" THEN TRUE
                 ELSE ValueIsNaN(x.v[1]))
           ELSE TRUE
    [] OTHER -> TRUE

\* String.prototype.includes on a message, for a needle that is one segment
Includes(msg, needle) == \E i \in 1..Len(msg) : msg[i] = needle

\* ------------------------------------------------------------------------
\* Records (personajes) and HTTP responses
\* ------------------------------------------------------------------------

ObjOf(r) == [t |-> "object", v |-> r]

camposString ==
  <<"nombre", "altura", "masa", "color_de_cabello", "color_de_piel",
    "color_de_ojos", "año_de_nacimiento", "genero", "planeta_natal">>

camposArray == <<"peliculas", "especies", "vehiculos", "naves_espaciales">>

Range(f) == {f[i] : i \in DOMAIN f}

\* the keys a personaje object of the model can carry; a key that is not
\* in the object holds Undefined
Campos == Range(camposString) \cup Range(camposArray) \cup {"id", "creado", "actualizado"}

SinCampos == [k \in Campos |-> Undefined]

\* object literal / spread: base with the keys of upd overwritten
With(base, upd) == [k \in DOMAIN base |-> IF k \in DOMAIN upd THEN upd[k] ELSE base[k]]

\* JSON.stringify of an object: keys holding undefined are omitted
JsonStringify(body) ==
  LET keep == {k \in DOMAIN body : body[k].t # "undefined"}
  IN [k \in keep |-> body[k]]

CorsHeaders ==
  [ContentType |-> "application/json",
   AccessControlAllowOrigin |-> "*",
   AccessControlAllowCredentials |-> TRUE]

\* a response builder that leaves out the credentials header
buildResponseSinCredenciales(statusCode, body) ==
  [statusCode |-> statusCode,
   headers |-> [ContentType |-> "application/json", AccessControlAllowOrigin |-> "*"],
   body |-> JsonStringify(body)]

buildResponse(statusCode, body) ==
  [statusCode |-> statusCode, headers |-> CorsHeaders, body |-> JsonStringify(body)]

\* process.env.NODE_ENV === 'development' ? error.message : fallback
Detalles(nodeEnv, message, fallback) ==
  IF nodeEnv = "development" THEN Str(message) ELSE Str(fallback)

\* ------------------------------------------------------------------------
\* crearEntidad: validation and sanitation
\* ------------------------------------------------------------------------

\* event.body is undefined, null, '' or a text; a text is modelled by the
\* value JSON.parse gives for it, or by NoJson when JSON.parse throws
NoJson == [t |-> "nojson"]

Text(json) == [t |-> "text", json |-> json]

\* a validation that hands an empty body to JSON.parse
validarCuerpoRequestSinVacio(body) ==
  IF body.t \in {"undefined", "null"} \/ body = Str(<<>>)
    THEN [valido |-> FALSE, error |-> <<"El cuerpo de la petición no es un JSON válido">>]
  ELSE IF body.json = NoJson
    THEN [valido |-> FALSE, error |-> <<"El cuerpo de la petición no es un JSON válido">>]
  ELSE IF ~Truthy(body.json) \/ TypeOf(body.json) # "object" \/ IsArray(body.json)
    THEN [valido |-> FALSE, error |-> <<"El cuerpo debe ser un objeto JSON válido">>]
  ELSE [valido |-> TRUE, datos |-> body.json.v]

validarCuerpoRequest(body) ==
  IF body.t \in {"undefined", "null"} \/ body = Str(<<>>)
    THEN [valido |-> FALSE, error |-> <<"El cuerpo de la petición está vacío">>]
  ELSE IF body.json = NoJson
    THEN [valido |-> FALSE, error |-> <<"El cuerpo de la petición no es un JSON válido">>]
  ELSE IF ~Truthy(body.json) \/ TypeOf(body.json) # "object" \/ IsArray(body.json)
    THEN [valido |-> FALSE, error |-> <<"El cuerpo debe ser un objeto JSON válido">>]
  ELSE [valido |-> TRUE, datos |-> body.json.v]

camposObligatorios == <<"nombre">>

\* a required-field test that only asks for a truthy value
CampoFaltanteSoloPresencia(personaje, campo) == ~Truthy(personaje[campo])

CampoFaltante(personaje, campo) ==
  \/ ~Truthy(personaje[campo])
  \/ TypeOf(personaje[campo]) # "string"
  \/ Trim(personaje[campo].v) = <<>>

\* a required-field validation that does not trim before testing for ''
validarCamposObligatoriosSinTrim(personaje) ==
  LET camposFaltantes ==
        SelectSeq(camposObligatorios,
                  LAMBDA c : ~Truthy(personaje[c]) \/ TypeOf(personaje[c]) # "string")
  IN IF Len(camposFaltantes) > 0
       THEN [valido |-> FALSE,
             error |-> <<"Faltan campos obligatorios o están vacíos">>,
             camposFaltantes |-> camposFaltantes]
       ELSE [valido |-> TRUE]

validarCamposObligatorios(personaje) ==
  LET camposFaltantes == SelectSeq(camposObligatorios, LAMBDA c : CampoFaltante(personaje, c))
  IN IF Len(camposFaltantes) > 0
       THEN [valido |-> FALSE,
             error |-> <<"Faltan campos obligatorios o están vacíos">>,
             camposFaltantes |-> camposFaltantes]
       ELSE [valido |-> TRUE]

generosValidos ==
  << <<"m", "a", "s", "c", "u", "l", "i", "n", "o">>,
     <<"f", "e", "m", "e", "n", "i", "n", "o">>,
     <<"h", "e", "r", "m", "a", "f", "r", "o", "d", "i", "t", "a">>,
     <<"n", "/", "a">>,
     <<"d", "e", "s", "c", "o", "n", "o", "c", "i", "d", "o">> >>

MsgCadena(campo) == <<"El campo \"", campo, "\" debe ser una cadena de texto">>

MsgArray(campo) == <<"El campo \"", campo, "\" debe ser un array">>

MsgNumerico(campo) == <<"El campo \"", campo, "\" debe contener un valor numérico">>

MsgGenero == <<"El campo \"", "genero", "\" debe ser uno de: masculino, femenino, hermafrodita, n/a, desconocido">>

MapSeq(s, Op(_)) == [i \in 1..Len(s) |-> Op(s[i])]

\* the messages of the string-type loop, in the order of camposString
ErroresCadena(personaje) ==
  MapSeq(SelectSeq(camposString,
                   LAMBDA c : personaje[c].t # "undefined" /\ TypeOf(personaje[c]) # "string"),
         MsgCadena)

\* the messages of the array-type loop, in the order of camposArray
ErroresArray(personaje) ==
  MapSeq(SelectSeq(camposArray,
                   LAMBDA c : personaje[c].t # "undefined" /\ ~IsArray(personaje[c])),
         MsgArray)

\* if (personaje.altura && isNaN(personaje.altura)), the same for masa
ErroresNumerico(personaje, campo) ==
  IF Truthy(personaje[campo]) /\ ValueIsNaN(personaje[campo])
    THEN <<MsgNumerico(campo)>> ELSE <<>>

\* personaje.genero.toLowerCase() on a truthy value that is not a string
\* raises a TypeError: numbers, booleans, arrays and objects have no such method
GeneroLanza(personaje) ==
  Truthy(personaje["genero"]) /\ TypeOf(personaje["genero"]) # "string"

ErroresGenero(personaje) ==
  IF Truthy(personaje["genero"])
     /\ ~InChars(ToLowerCase(personaje["genero"].v), generosValidos)
    THEN <<MsgGenero>> ELSE <<>>

\* The result is [lanza |-> TRUE, message] when the function throws, and
\* otherwise [lanza |-> FALSE, valido, errores].
validarTiposDeDatos(personaje) ==
  IF GeneroLanza(personaje)
    THEN [lanza |-> TRUE,
          message |-> <<"personaje.genero.toLowerCase is not a function">>]
  ELSE
    LET erroresValidacion ==
          ErroresCadena(personaje) \o ErroresArray(personaje)
          \o ErroresNumerico(personaje, "altura") \o ErroresNumerico(personaje, "masa")
          \o ErroresGenero(personaje)
    IN [lanza |-> FALSE,
        valido |-> Len(erroresValidacion) = 0,
        errores |-> erroresValidacion]

\* a sanitation that leaves an omitted array field absent
sanitizarPersonajeSinListas(personaje) ==
  LET trimmed == [k \in DOMAIN personaje |->
                    IF TypeOf(personaje[k]) = "string"
                      THEN Str(Trim(personaje[k].v)) ELSE personaje[k]]
  IN IF Truthy(trimmed["genero"])
       THEN With(trimmed, [genero |-> Str(ToLowerCase(trimmed["genero"].v))])
       ELSE trimmed

\* trims every string value, lower-cases a truthy genero, defaults the arrays
sanitizarPersonaje(personaje) ==
  LET trimmed == [k \in DOMAIN personaje |->
                    IF TypeOf(personaje[k]) = "string"
                      THEN Str(Trim(personaje[k].v)) ELSE personaje[k]]
      lowered == IF Truthy(trimmed["genero"])
                   THEN With(trimmed, [genero |-> Str(ToLowerCase(trimmed["genero"].v))])
                   ELSE trimmed
  IN [k \in DOMAIN lowered |->
        IF k \in Range(camposArray) /\ ~Truthy(lowered[k]) THEN Arr(<<>>) ELSE lowered[k]]

\* ------------------------------------------------------------------------
\* dynamoDBService: the DocumentClient and the three service functions
\* the handlers call.  A service result is [ok |-> TRUE, value] or
\* [ok |-> FALSE, message] (the Error it throws); guardarPersonaje also
\* gives the table after the call.
\* ------------------------------------------------------------------------

NoFault == [code |-> "none", message |-> <<>>]

\* errors the AWS SDK can reject a request with, besides a failed condition
SdkFaults ==
  {[code |-> "NetworkingError", message |-> <<"connect ETIMEDOUT">>]}

MsgSinTabla == <<"La ", "variable de entorno", " PERSONAJES_TABLE no está configurada">>

HasId(tabla, id) == \E it \in tabla : it["id"] = id

\* a put without the ConditionExpression: the item replaces its namesake
DynamoPutSobrescribe(tabla, item, fault) ==
  IF fault # NoFault
    THEN [ok |-> FALSE, error |-> fault, tabla |-> tabla]
    ELSE [ok |-> TRUE, tabla |-> {it \in tabla : it["id"] # item["id"]} \cup {item}]

\* dynamoDB.put with ConditionExpression attribute_not_exists(id)
DynamoPut(tabla, item, fault) ==
  IF fault # NoFault
    THEN [ok |-> FALSE, error |-> fault, tabla |-> tabla]
  ELSE IF HasId(tabla, item["id"])
    THEN [ok |-> FALSE,
          error |-> [code |-> "ConditionalCheckFailedException",
                     message |-> <<"The conditional request failed">>],
          tabla |-> tabla]
  ELSE [ok |-> TRUE, tabla |-> tabla \cup {item}]

\* guardarPersonaje whose catch does not single out the failed condition
guardarPersonajeSinConflicto(tablaNombre, tabla, personaje, fault) ==
  IF ~Truthy(tablaNombre)
    THEN [ok |-> FALSE, peticiones |-> 0, tabla |-> tabla,
          message |-> <<"Error al guardar en ", "DynamoDB", ": ">> \o MsgSinTabla]
  ELSE
    LET r == DynamoPut(tabla, personaje, fault)
    IN IF r.ok
         THEN [ok |-> TRUE, peticiones |-> 1, tabla |-> r.tabla, value |-> ObjOf(personaje)]
         ELSE [ok |-> FALSE, peticiones |-> 1, tabla |-> r.tabla,
               message |-> <<"Error al guardar en ", "DynamoDB", ": ">> \o r.error.message]

guardarPersonaje(tablaNombre, tabla, personaje, fault) ==
  IF ~Truthy(tablaNombre)
    THEN [ok |-> FALSE, peticiones |-> 0, tabla |-> tabla,
          message |-> <<"Error al guardar en ", "DynamoDB", ": ">> \o MsgSinTabla]
  ELSE
    LET r == DynamoPut(tabla, personaje, fault)
    IN IF r.ok
         THEN [ok |-> TRUE, peticiones |-> 1, tabla |-> r.tabla, value |-> ObjOf(personaje)]
       ELSE IF r.error.code = "ConditionalCheckFailedException"
         THEN [ok |-> FALSE, peticiones |-> 1, tabla |-> r.tabla,
               message |-> <<"Ya existe", " un personaje con el ID ">> \o personaje["id"].v]
       ELSE [ok |-> FALSE, peticiones |-> 1, tabla |-> r.tabla,
             message |-> <<"Error al guardar en ", "DynamoDB", ": ">> \o r.error.message]

obtenerPersonajePorId(tablaNombre, tabla, id, fault) ==
  IF ~Truthy(tablaNombre)
    THEN [ok |-> FALSE, peticiones |-> 0,
          message |-> <<"Error al consultar ", "DynamoDB", ": ">> \o MsgSinTabla]
  ELSE IF fault # NoFault
    THEN [ok |-> FALSE, peticiones |-> 1,
          message |-> <<"Error al consultar ", "DynamoDB", ": ">> \o fault.message]
  ELSE IF ~HasId(tabla, id)
    THEN [ok |-> TRUE, peticiones |-> 1, value |-> Null]
  ELSE [ok |-> TRUE, peticiones |-> 1, value |-> ObjOf(CHOOSE it \in tabla : it["id"] = id)]

Min(a, b) == IF a < b THEN a ELSE b

\* the orders in which a scan can meet the items of the table
ScanOrders(tabla) ==
  {o \in [1..Cardinality(tabla) -> tabla] : \A i, j \in DOMAIN o : i # j => o[i] # o[j]}

\* dynamoDB.scan with Limit: the first `limite` items in scan order
listarPersonajes(tablaNombre, tabla, limite, fault, orden) ==
  IF ~Truthy(tablaNombre)
    THEN [ok |-> FALSE, peticiones |-> 0,
          message |-> <<"Error al consultar ", "DynamoDB", ": ">> \o MsgSinTabla]
  ELSE IF fault # NoFault
    THEN [ok |-> FALSE, peticiones |-> 1,
          message |-> <<"Error al consultar ", "DynamoDB", ": ">> \o fault.message]
  ELSE [ok |-> TRUE, peticiones |-> 1, value |-> SubSeq(orden, 1, Min(limite, Len(orden)))]

\* ------------------------------------------------------------------------
\* State
\* ------------------------------------------------------------------------

VARIABLES
  TABLA_PERSONAJES,  \* process.env.PERSONAJES_TABLE as read when the service module loads
  NODE_ENV,          \* process.env.NODE_ENV
  tablaDynamo,       \* the items of the DynamoDB table
  reloj,             \* the wall clock new Date() reads
  inv,               \* the Lambda invocations: position, event, pending call,
                     \* what the awaited call settled with, response
  mapper             \* the last call of a function of the mapper module made
                     \* on its own: function, argument, returned value

vars == <<TABLA_PERSONAJES, NODE_ENV, tablaDynamo, reloj, inv, mapper>>

\* the invocation slots
Procs == {"a", "b"}

NoResp == [statusCode |-> 0]

Idle ==
  [pc |-> "idle", handler |-> "none", event |-> Undefined, arg |-> Undefined,
   llamadas |-> 0, peticiones |-> 0, resultado |-> Undefined, resp |-> NoResp]

\* no function of the mapper module has been called on its own
SinLlamada == [fn |-> "none", arg |-> Undefined, hecho |-> FALSE, ret |-> Undefined]

\* the handler is suspended on its one awaited downstream call, made with arg
Awaiting(handler, event, arg) ==
  [pc |-> "awaiting", handler |-> handler, event |-> event, arg |-> arg,
   llamadas |-> 1, peticiones |-> 0, resultado |-> Undefined, resp |-> NoResp]

\* the handler has returned resp, after `llamadas` downstream calls made with arg
Done(handler, event, arg, llamadas, resp) ==
  [pc |-> "done", handler |-> handler, event |-> event, arg |-> arg,
   llamadas |-> llamadas, peticiones |-> 0, resultado |-> Undefined, resp |-> resp]

\* what an awaited service call settled with: the value it resolved to, or
\* the message of the Error it rejected with
Settlement(r) ==
  IF r.ok THEN [ok |-> TRUE, value |-> r.value] ELSE [ok |-> FALSE, message |-> r.message]

\* the handler has returned resp after its awaited call, made with arg,
\* settled with r, having sent r.peticiones requests to the remote service
Settled(handler, event, arg, r, resp) ==
  [pc |-> "done", handler |-> handler, event |-> event, arg |-> arg,
   llamadas |-> 1, peticiones |-> r.peticiones, resultado |-> Settlement(r), resp |-> resp]

\* Date.prototype.toISOString of the clock reading t
ToISOString(t) == <<"2", "0", "2", "6", "-", "0", "1", "-", "0", DigitChars[t + 1], "T">>

BadRequest == Str(<<"Bad Request">>)

NotFound == Str(<<"Not Found">>)

InternalServerError == Str(<<"Internal Server Error">>)

ServiceUnavailable == Str(<<"Service Unavailable">>)

\* ------------------------------------------------------------------------
\* Handler crearEntidad (POST /personajes)
\* ------------------------------------------------------------------------

\* a catch block that classifies store failures as the read handlers do
crearEntidadCatchComoLectura(message, nodeEnv) ==
  IF Includes(message, "Ya existe")
    THEN buildResponse(409, [error |-> Str(<<"Conflict">>), mensaje |-> Str(message)])
  ELSE IF Includes(message, "DynamoDB")
    THEN buildResponse(503,
           [error |-> ServiceUnavailable,
            mensaje |-> Str(<<"No se pudo acceder a la base de datos">>),
            detalles |-> Str(<<"Error al consultar DynamoDB">>)])
  ELSE buildResponse(500,
         [error |-> InternalServerError,
          mensaje |-> Str(<<"Ocurrió un error al crear el personaje">>),
          detalles |-> Detalles(nodeEnv, message, <<"Error interno del servidor">>)])

\* the catch block of the handler
crearEntidadCatch(message, nodeEnv) ==
  IF Includes(message, "Ya existe")
    THEN buildResponse(409, [error |-> Str(<<"Conflict">>), mensaje |-> Str(message)])
    ELSE buildResponse(500,
           [error |-> InternalServerError,
            mensaje |-> Str(<<"Ocurrió un error al crear el personaje">>),
            detalles |-> Detalles(nodeEnv, message, <<"Error interno del servidor">>)])

\* The handler up to its call of guardarPersonaje: [fin |-> TRUE, resp] when
\* it returns a response, [fin |-> FALSE, personaje] when validation passed.
crearEntidadValidar(body, nodeEnv) ==
  LET validacionCuerpo == validarCuerpoRequest(body)
  IN IF ~validacionCuerpo.valido
       THEN [fin |-> TRUE,
             resp |-> buildResponse(400,
                        [error |-> BadRequest, mensaje |-> Str(validacionCuerpo.error)])]
     ELSE
       LET datosPersonaje == validacionCuerpo.datos
           validacionObligatorios == validarCamposObligatorios(datosPersonaje)
       IN IF ~validacionObligatorios.valido
            THEN [fin |-> TRUE,
                  resp |-> buildResponse(400,
                             [error |-> BadRequest,
                              mensaje |-> Str(validacionObligatorios.error),
                              camposFaltantes |->
                                Arr(MapSeq(validacionObligatorios.camposFaltantes,
                                           LAMBDA c : Str(<<c>>))),
                              ejemplo |-> Obj])]
          ELSE
            LET validacionTipos == validarTiposDeDatos(datosPersonaje)
            IN IF validacionTipos.lanza
                 THEN [fin |-> TRUE,
                       resp |-> crearEntidadCatch(validacionTipos.message, nodeEnv)]
               ELSE IF ~validacionTipos.valido
                 THEN [fin |-> TRUE,
                       resp |-> buildResponse(400,
                                  [error |-> BadRequest,
                                   mensaje |-> Str(<<"Errores de validación en los datos proporcionados">>),
                                   errores |-> Arr(MapSeq(validacionTipos.errores, Str))])]
               ELSE [fin |-> FALSE, personaje |-> sanitizarPersonaje(datosPersonaje)]

\* a handler that assigns the id and the timestamps only where the body
\* brought none
HandlerCrearEntidadSiFalta(p, event, uuid) ==
  /\ inv[p].pc = "idle"
  /\ LET r == crearEntidadValidar(event.body, NODE_ENV)
         timestamp == Str(ToISOString(reloj))
         propio(k, v) == IF Truthy(r.personaje[k]) THEN r.personaje[k] ELSE v
     IN inv' = [inv EXCEPT ![p] =
                  IF r.fin
                    THEN Done("crearEntidad", event, Undefined, 0, r.resp)
                    ELSE Awaiting("crearEntidad", event,
                           With(r.personaje,
                                [id |-> propio("id", Str(uuid)),
                                 creado |-> propio("creado", timestamp),
                                 actualizado |-> propio("actualizado", timestamp)]))]
  /\ UNCHANGED <<TABLA_PERSONAJES, NODE_ENV, tablaDynamo, reloj, mapper>>

\* handler(event): validation, sanitation, uuidv4() and new Date(), then the
\* call of guardarPersonaje on which the handler awaits
HandlerCrearEntidad(p, event, uuid) ==
  /\ inv[p].pc = "idle"
  /\ LET r == crearEntidadValidar(event.body, NODE_ENV)
         timestamp == Str(ToISOString(reloj))
     IN inv' = [inv EXCEPT ![p] =
                  IF r.fin
                    THEN Done("crearEntidad", event, Undefined, 0, r.resp)
                    ELSE Awaiting("crearEntidad", event,
                           With(r.personaje,
                                [id |-> Str(uuid), creado |-> timestamp,
                                 actualizado |-> timestamp]))]
  /\ UNCHANGED <<TABLA_PERSONAJES, NODE_ENV, tablaDynamo, reloj, mapper>>

\* a handler that does not wait for guardarPersonaje: it answers 201 whether
\* or not the put is accepted
HandlerCrearEntidadSinEsperar(p, fault) ==
  /\ inv[p].pc = "awaiting"
  /\ inv[p].handler = "crearEntidad"
  /\ LET r == guardarPersonaje(TABLA_PERSONAJES, tablaDynamo, inv[p].arg, fault)
     IN /\ tablaDynamo' = r.tabla
        /\ inv' = [inv EXCEPT ![p] =
                     Settled("crearEntidad", inv[p].event, inv[p].arg, r,
                          buildResponse(201,
                            [exito |-> Bool(TRUE),
                             mensaje |-> Str(<<"Personaje creado exitosamente">>),
                             datos |-> ObjOf(inv[p].arg)]))]
  /\ UNCHANGED <<TABLA_PERSONAJES, NODE_ENV, reloj, mapper>>

\* guardarPersonaje settles and the handler returns 201, or its catch answers
HandlerCrearEntidadAwait(p, fault) ==
  /\ inv[p].pc = "awaiting"
  /\ inv[p].handler = "crearEntidad"
  /\ LET r == guardarPersonaje(TABLA_PERSONAJES, tablaDynamo, inv[p].arg, fault)
     IN /\ tablaDynamo' = r.tabla
        /\ inv' = [inv EXCEPT ![p] =
                     Settled("crearEntidad", inv[p].event, inv[p].arg, r,
                          IF r.ok
                            THEN buildResponse(201,
                                   [exito |-> Bool(TRUE),
                                    mensaje |-> Str(<<"Personaje creado exitosamente">>),
                                    datos |-> r.value])
                            ELSE crearEntidadCatch(r.message, NODE_ENV))]
  /\ UNCHANGED <<TABLA_PERSONAJES, NODE_ENV, reloj, mapper>>

\* ------------------------------------------------------------------------
\* Handlers obtenerPersonaje (GET /personajes/{id}) and listarPersonajes
\* (GET /personajes)
\* ------------------------------------------------------------------------

\* const { id } = event.pathParameters || {}
PathId(event) ==
  IF Truthy(event.pathParameters) THEN event.pathParameters.v.id ELSE Undefined

\* a catch block that tests for the configuration message first
dynamoCatchConfiguracionPrimero(message, nodeEnv) ==
  IF Includes(message, "variable de entorno")
    THEN buildResponse(500,
           [error |-> InternalServerError,
            mensaje |-> Str(<<"Error de configuración del servidor">>),
            detalles |-> Detalles(nodeEnv, message, <<"Configuración incompleta">>)])
  ELSE IF Includes(message, "DynamoDB")
    THEN buildResponse(503,
           [error |-> ServiceUnavailable,
            mensaje |-> Str(<<"No se pudo acceder a la base de datos">>),
            detalles |-> Str(<<"Error al consultar DynamoDB">>)])
  ELSE buildResponse(500,
         [error |-> InternalServerError,
          mensaje |-> Str(<<"Ocurrió un error al procesar la solicitud">>),
          detalles |-> Detalles(nodeEnv, message, <<"Error interno del servidor">>)])

\* the catch block shared, line for line, by the two handlers
dynamoCatch(message, nodeEnv) ==
  IF Includes(message, "DynamoDB")
    THEN buildResponse(503,
           [error |-> ServiceUnavailable,
            mensaje |-> Str(<<"No se pudo acceder a la base de datos">>),
            detalles |-> Str(<<"Error al consultar DynamoDB">>)])
  ELSE IF Includes(message, "variable de entorno")
    THEN buildResponse(500,
           [error |-> InternalServerError,
            mensaje |-> Str(<<"Error de configuración del servidor">>),
            detalles |-> Detalles(nodeEnv, message, <<"Configuración incompleta">>)])
  ELSE buildResponse(500,
         [error |-> InternalServerError,
          mensaje |-> Str(<<"Ocurrió un error al procesar la solicitud">>),
          detalles |-> Detalles(nodeEnv, message, <<"Error interno del servidor">>)])

\* the handler up to its call of obtenerPersonajePorId
obtenerPersonajeValidar(event) ==
  LET id == PathId(event)
  IN IF ~Truthy(id)
       THEN [fin |-> TRUE,
             resp |-> buildResponse(400,
                        [error |-> BadRequest,
                         mensaje |-> Str(<<"El ID del personaje es requerido">>),
                         detalles |-> Str(<<"Debe proporcionar un ID válido en la ruta: /personajes/{id}">>)])]
     ELSE IF TypeOf(id) # "string" \/ Trim(id.v) = <<>>
       THEN [fin |-> TRUE,
             resp |-> buildResponse(400,
                        [error |-> BadRequest,
                         mensaje |-> Str(<<"El ID del personaje debe ser una ", "cadena válida">>),
                         idRecibido |-> id])]
     ELSE [fin |-> FALSE, id |-> id]

HandlerObtenerPersonaje(p, event) ==
  /\ inv[p].pc = "idle"
  /\ LET r == obtenerPersonajeValidar(event)
     IN inv' = [inv EXCEPT ![p] =
                  IF r.fin
                    THEN Done("obtenerPersonaje", event, Undefined, 0, r.resp)
                    ELSE Awaiting("obtenerPersonaje", event, r.id)]
  /\ UNCHANGED <<TABLA_PERSONAJES, NODE_ENV, tablaDynamo, reloj, mapper>>

\* a handler that does not test what obtenerPersonajePorId resolved to
obtenerPersonajeResponderSinAusente(id, r, nodeEnv) ==
  IF ~r.ok THEN dynamoCatch(r.message, nodeEnv)
  ELSE buildResponse(200,
         [exito |-> Bool(TRUE),
          mensaje |-> Str(<<"Personaje obtenido exitosamente">>),
          datos |-> r.value])

\* the handler after obtenerPersonajePorId has settled with r
obtenerPersonajeResponder(id, r, nodeEnv) ==
  IF ~r.ok THEN dynamoCatch(r.message, nodeEnv)
  ELSE IF ~Truthy(r.value)
    THEN buildResponse(404,
           [error |-> NotFound,
            mensaje |-> Str(<<"No se encontró el personaje con ID ">> \o id.v),
            idBuscado |-> id,
            sugerencia |-> Str(<<"Verifique que el ID sea correcto o cree un nuevo personaje usando POST /personajes">>)])
  ELSE buildResponse(200,
         [exito |-> Bool(TRUE),
          mensaje |-> Str(<<"Personaje obtenido exitosamente">>),
          datos |-> r.value])

HandlerObtenerPersonajeAwait(p, fault) ==
  /\ inv[p].pc = "awaiting"
  /\ inv[p].handler = "obtenerPersonaje"
  /\ LET r == obtenerPersonajePorId(TABLA_PERSONAJES, tablaDynamo, inv[p].arg, fault)
     IN inv' = [inv EXCEPT ![p] =
                  Settled("obtenerPersonaje", inv[p].event, inv[p].arg, r,
                       obtenerPersonajeResponder(inv[p].arg, r, NODE_ENV))]
  /\ UNCHANGED <<TABLA_PERSONAJES, NODE_ENV, tablaDynamo, reloj, mapper>>

\* parseInt(queryParams.limite || queryParams.limit || '50', 10), defaulted and clamped
resolverLimite(event) ==
  LET queryParams == IF Truthy(event.queryStringParameters)
                       THEN event.queryStringParameters.v
                       ELSE [limite |-> Undefined, limit |-> Undefined]
      texto == IF Truthy(queryParams.limite) THEN queryParams.limite
               ELSE IF Truthy(queryParams.limit) THEN queryParams.limit
               ELSE Str(<<"5", "0">>)
      n == ParseInt(texto.v, 10)
      limite == IF n.nan \/ n.v <= 0 THEN 50 ELSE n.v
  IN IF limite > 100 THEN 100 ELSE limite

\* new Date(x) as a number: [nan |-> TRUE] for an invalid date
DateOf(x) ==
  IF x.t = "number" THEN [nan |-> FALSE, v |-> x.v]
  ELSE IF /\ x.t = "string"
          /\ Len(x.v) = 11
          /\ SubSeq(x.v, 1, 9) = SubSeq(ToISOString(0), 1, 9)
          /\ InChars(x.v[10], DigitChars)
          /\ x.v[11] = "T"
    THEN [nan |-> FALSE, v |-> PosIn(x.v[10], DigitChars) - 1]
  ELSE [nan |-> TRUE]

\* the comparator of the sort; a NaN difference counts as 0
compararCreado(a, b) ==
  IF ~Truthy(a["creado"]) \/ ~Truthy(b["creado"]) THEN 0
  ELSE LET db == DateOf(b["creado"])
           da == DateOf(a["creado"])
       IN IF db.nan \/ da.nan THEN 0 ELSE db.v - da.v

Reverse(s) == [i \in 1..Len(s) |-> s[Len(s) + 1 - i]]

\* length of the run that starts the array: strictly descending
\* (order < 0) or non-descending, as the first comparison decides
RECURSIVE RunLength(_, _, _)
RunLength(s, n, descending) ==
  IF n >= Len(s) THEN n
  ELSE LET order == compararCreado(s[n + 1], s[n])
       IN IF (order < 0) = descending THEN RunLength(s, n + 1, descending) ELSE n

\* position at which the pivot goes into the sorted prefix s[1..right-1],
\* found by the binary search of the insertion sort (left, right: 0-based)
RECURSIVE InsertPos(_, _, _, _)
InsertPos(s, pivot, left, right) ==
  IF left >= right THEN left
  ELSE LET mid == left + ((right - left) \div 2)
       IN IF compararCreado(pivot, s[mid + 1]) < 0
            THEN InsertPos(s, pivot, left, mid)
            ELSE InsertPos(s, pivot, mid + 1, right)

RECURSIVE BinaryInsertionSort(_, _)
BinaryInsertionSort(s, start) ==
  IF start > Len(s) THEN s
  ELSE LET pivot == s[start]
           pos == InsertPos(s, pivot, 0, start - 1)
           moved == SubSeq(s, 1, pos) \o <<pivot>> \o SubSeq(s, pos + 1, start - 1)
                    \o SubSeq(s, start + 1, Len(s))
       IN BinaryInsertionSort(moved, start + 1)

\* Array.prototype.sort with compararCreado on a short array: the initial
\* run is found (a descending one is reversed), the rest is inserted
SortPorCreado(s) ==
  IF Len(s) < 2 THEN s
  ELSE LET descending == compararCreado(s[2], s[1]) < 0
           run == RunLength(s, 2, descending)
           made == IF descending
                     THEN Reverse(SubSeq(s, 1, run)) \o SubSeq(s, run + 1, Len(s))
                     ELSE s
       IN BinaryInsertionSort(made, run + 1)

\* the handler after listarPersonajes has settled with r
listarPersonajesResponder(limite, r, nodeEnv) ==
  IF ~r.ok THEN dynamoCatch(r.message, nodeEnv)
  ELSE IF Len(r.value) = 0
    THEN buildResponse(200,
           [exito |-> Bool(TRUE),
            mensaje |-> Str(<<"No hay personajes almacenados">>),
            total |-> Num(0),
            datos |-> Arr(<<>>)])
  ELSE LET personajesOrdenados == SortPorCreado(r.value)
       IN buildResponse(200,
            [exito |-> Bool(TRUE),
             mensaje |-> Str(<<"Personajes obtenidos exitosamente">>),
             total |-> Num(Len(personajesOrdenados)),
             limite |-> Num(limite),
             datos |-> Arr(MapSeq(personajesOrdenados, ObjOf))])

HandlerListarPersonajes(p, event) ==
  /\ inv[p].pc = "idle"
  /\ inv' = [inv EXCEPT ![p] = Awaiting("listarPersonajes", event, Num(resolverLimite(event)))]
  /\ UNCHANGED <<TABLA_PERSONAJES, NODE_ENV, tablaDynamo, reloj, mapper>>

HandlerListarPersonajesAwait(p, fault, orden) ==
  /\ inv[p].pc = "awaiting"
  /\ inv[p].handler = "listarPersonajes"
  /\ LET limite == inv[p].arg.v
         r == listarPersonajes(TABLA_PERSONAJES, tablaDynamo, limite, fault, orden)
     IN inv' = [inv EXCEPT ![p] =
                  Settled("listarPersonajes", inv[p].event, inv[p].arg, r,
                       listarPersonajesResponder(limite, r, NODE_ENV))]
  /\ UNCHANGED <<TABLA_PERSONAJES, NODE_ENV, tablaDynamo, reloj, mapper>>

\* ------------------------------------------------------------------------
\* mapper: translation of a catalog record.  A catalog object is
\* [t |-> "object", entries |-> <<[k, v], ...>>], its own keys in insertion
\* order.
\* ------------------------------------------------------------------------

PERSONAJE_FIELD_MAP ==
  [name |-> "nombre", height |-> "altura", mass |-> "masa",
   hair_color |-> "color_de_cabello", skin_color |-> "color_de_piel",
   eye_color |-> "color_de_ojos", birth_year |-> "año_de_nacimiento",
   gender |-> "genero", homeworld |-> "planeta_natal", films |-> "peliculas",
   species |-> "especies", vehicles |-> "vehiculos",
   starships |-> "naves_espaciales", created |-> "creado",
   edited |-> "editado", url |-> "url"]

VALUE_TRANSLATIONS ==
  << [k |-> <<"m", "a", "l", "e">>, v |-> <<"m", "a", "s", "c", "u", "l", "i", "n", "o">>],
     [k |-> <<"f", "e", "m", "a", "l", "e">>, v |-> <<"f", "e", "m", "e", "n", "i", "n", "o">>],
     [k |-> <<"n", "/", "a">>, v |-> <<"n", "/", "a">>],
     [k |-> <<"n", "o", "n", "e">>, v |-> <<"n", "i", "n", "g", "u", "n", "o">>],
     [k |-> <<"h", "e", "r", "m", "a", "p", "h", "r", "o", "d", "i", "t", "e">>,
      v |-> <<"h", "e", "r", "m", "a", "f", "r", "o", "d", "i", "t", "a">>],
     [k |-> <<"b", "l", "u", "e">>, v |-> <<"a", "z", "u", "l">>],
     [k |-> <<"b", "l", "o", "n", "d">>,
      v |-> <<"r", "u", "b", "i", "o", " ", "(", "t", "e", "s", "t", "t", ")">>],
     [k |-> <<"u", "n", "k", "n", "o", "w", "n">>,
      v |-> <<"d", "e", "s", "c", "o", "n", "o", "c", "i", "d", "o">>] >>

\* A function object of the runtime; texto is what String() gives for it.
BuiltIn(name, texto) == [t |-> "function", name |-> name, texto |-> texto]

\* Both maps are object literals, so a lookup that finds no own key goes on
\* to Object.prototype.  Its members, by name (k, and chars for a lookup by a
\* string of characters): the functions every object inherits and the
\* __proto__ accessor, which gives Object.prototype itself.
ObjectPrototype ==
  << [k |-> "constructor",
      chars |-> <<"c", "o", "n", "s", "t", "r", "u", "c", "t", "o", "r">>,
      v |-> BuiltIn("Object", "function Object() { [native code] }")],
     [k |-> "toString",
      chars |-> <<"t", "o", "S", "t", "r", "i", "n", "g">>,
      v |-> BuiltIn("toString", "function toString() { [native code] }")],
     [k |-> "valueOf",
      chars |-> <<"v", "a", "l", "u", "e", "O", "f">>,
      v |-> BuiltIn("valueOf", "function valueOf() { [native code] }")],
     [k |-> "hasOwnProperty",
      chars |-> <<"h", "a", "s", "O", "w", "n", "P", "r", "o", "p", "e", "r", "t", "y">>,
      v |-> BuiltIn("hasOwnProperty", "function hasOwnProperty() { [native code] }")],
     [k |-> "__proto__",
      chars |-> <<"_", "_", "p", "r", "o", "t", "o", "_", "_">>,
      v |-> [t |-> "object", texto |-> "[object Object]"]] >>

\* ToPropertyKey: the name under which a value is looked up or stored.  A
\* field name is a string of one segment, Str(<<name>>).
PropertyKey(x) ==
  CASE x.t = "string" -> IF x.v = <<>> THEN "" ELSE x.v[1]
    [] x.t = "undefined" -> "undefined"
    [] x.t = "null" -> "null"
    [] x.t = "boolean" -> IF x.v THEN "true" ELSE "false"
    [] x.t = "number" -> DigitChars[x.v + 1]
    [] OTHER -> x.texto

\* PERSONAJE_FIELD_MAP[fieldName] || fieldName
translateFieldName(fieldName) ==
  LET key == PropertyKey(fieldName)
      heredado == {i \in 1..Len(ObjectPrototype) : ObjectPrototype[i].k = key}
      hit == IF key \in DOMAIN PERSONAJE_FIELD_MAP THEN Str(<<PERSONAJE_FIELD_MAP[key]>>)
             ELSE IF heredado # {} THEN ObjectPrototype[CHOOSE i \in heredado : TRUE].v
             ELSE Undefined
  IN IF Truthy(hit) THEN hit ELSE fieldName

\* VALUE_TRANSLATIONS[value.toLowerCase()] || value, for a string
translateValue(value) ==
  IF TypeOf(value) = "string"
    THEN LET lowerValue == ToLowerCase(value.v)
             propio == {i \in 1..Len(VALUE_TRANSLATIONS) : VALUE_TRANSLATIONS[i].k = lowerValue}
             heredado == {i \in 1..Len(ObjectPrototype) : ObjectPrototype[i].chars = lowerValue}
             hit == IF propio # {} THEN Str(VALUE_TRANSLATIONS[CHOOSE i \in propio : TRUE].v)
                    ELSE IF heredado # {} THEN ObjectPrototype[CHOOSE i \in heredado : TRUE].v
                    ELSE Undefined
         IN IF Truthy(hit) THEN hit ELSE value
    ELSE value

\* obj[k] = v: an existing key keeps its place, a new key goes last
SetEntry(entries, k, v) ==
  IF \E i \in 1..Len(entries) : entries[i].k = k
    THEN [i \in 1..Len(entries) |-> IF entries[i].k = k THEN [k |-> k, v |-> v] ELSE entries[i]]
    ELSE Append(entries, [k |-> k, v |-> v])

RECURSIVE MapEntries(_, _)
MapEntries(entries, acc) ==
  IF entries = <<>> THEN acc
  ELSE LET e == Head(entries)
           valor == IF IsArray(e.v) THEN Arr(MapSeq(e.v.v, translateValue))
                    ELSE translateValue(e.v)
       IN MapEntries(Tail(entries),
                     SetEntry(acc, PropertyKey(translateFieldName(Str(<<e.k>>))), valor))

mapPersonajeToEspanol(personajeEnIngles) ==
  IF ~Truthy(personajeEnIngles) \/ TypeOf(personajeEnIngles) # "object"
    THEN Null
  ELSE IF IsArray(personajeEnIngles)
    THEN [t |-> "object",
          entries |-> MapEntries([i \in 1..Len(personajeEnIngles.v) |->
                                    [k |-> DigitChars[i], v |-> personajeEnIngles.v[i]]],
                                 <<>>)]
  ELSE [t |-> "object", entries |-> MapEntries(personajeEnIngles.entries, <<>>)]

\* a version that keeps what mapPersonajeToEspanol returned for every element
mapPersonajesToEspanolSinFiltro(personajes) ==
  IF ~IsArray(personajes) THEN Arr(<<>>)
  ELSE Arr(MapSeq(personajes.v, mapPersonajeToEspanol))

\* personajes.map(mapPersonajeToEspanol).filter(Boolean)
mapPersonajesToEspanol(personajes) ==
  IF ~IsArray(personajes) THEN Arr(<<>>)
  ELSE Arr(SelectSeq(MapSeq(personajes.v, mapPersonajeToEspanol), Truthy))

\* the number of characters of s from position i on that \d matches in a row
RECURSIVE DigitRun(_, _)
DigitRun(s, i) ==
  IF i <= Len(s) /\ InChars(s[i], DigitChars) THEN 1 + DigitRun(s, i + 1) ELSE 0

\* the lengths n with which \d+ lets the rest of /\/(\d+)\/?$/ match when the
\* '/' of the pattern is at position i: after the n digits comes the end of
\* the input, or one '/' and then the end
MatchLengths(s, i) ==
  {n \in 1..DigitRun(s, i + 1) :
     LET e == i + n
     IN e = Len(s) \/ (e + 1 = Len(s) /\ s[e + 1] = "/")}

\* a pattern without the $ anchor: the first '/' followed by digits matches
RegExpMatchSinAncla(s) ==
  LET starts == {i \in 1..Len(s) : s[i] = "/" /\ DigitRun(s, i + 1) > 0}
  IN IF starts = {} THEN [found |-> FALSE]
     ELSE LET i == CHOOSE x \in starts : \A y \in starts : x <= y
          IN [found |-> TRUE, group |-> SubSeq(s, i + 1, i + DigitRun(s, i + 1))]

\* url.match(/\/(\d+)\/?$/): the leftmost position where the pattern matches,
\* \d+ taking as many digits as it can; found says whether there is a match,
\* group is matches[1]
RegExpMatch(s) ==
  LET starts == {i \in 1..Len(s) : s[i] = "/" /\ MatchLengths(s, i) # {}}
  IN IF starts = {} THEN [found |-> FALSE]
     ELSE LET i == CHOOSE x \in starts : \A y \in starts : x <= y
              n == CHOOSE x \in MatchLengths(s, i) : \A y \in MatchLengths(s, i) : y <= x
          IN [found |-> TRUE, group |-> SubSeq(s, i + 1, i + n)]

extractIdFromUrl(url) ==
  IF ~Truthy(url) \/ TypeOf(url) # "string" THEN Null
  ELSE LET matches == RegExpMatch(url.v)
       IN IF matches.found THEN Str(matches.group) ELSE Null

\* ------------------------------------------------------------------------
\* swapiService.getPersonajeById and the handler getPersonaje
\* (GET /personajes/swapi/{id})
\* ------------------------------------------------------------------------

\* What axios.get settles with: a response with a status, a status text (the
\* segments of the server's reason phrase) and a body, or no response at all
\* (connection failure, or the 10 s timeout expiring).  axios rejects every
\* status outside 2xx.
AxiosResponse(status, statusText, data) ==
  [kind |-> "response", status |-> status, statusText |-> statusText, data |-> data]

AxiosNoResponse == [kind |-> "request"]

\* the number n as the text a template literal gives it (0..999)
NumText(n) ==
  IF n < 10 THEN <<DigitChars[n + 1]>>
  ELSE IF n < 100 THEN <<DigitChars[(n \div 10) + 1], DigitChars[(n % 10) + 1]>>
  ELSE <<DigitChars[(n \div 100) + 1], DigitChars[((n \div 10) % 10) + 1], DigitChars[(n % 10) + 1]>>

\* the catch block of getPersonajeById for an axios rejection
swapiCatch(id, outcome) ==
  IF outcome.kind = "response"
    THEN IF outcome.status = 404
           THEN <<"Personaje con ID ">> \o id.v \o <<" ", "no encontrado", " en SWAPI">>
           ELSE <<"Error de SWAPI: ">> \o NumText(outcome.status) \o <<" - ">> \o outcome.statusText
    ELSE <<"No se pudo ", "conectar", " con SWAPI. Verifica tu conexión a internet">>

getPersonajeById(id, outcome) ==
  IF ~Truthy(id) \/ ValueIsNaN(id)
    THEN [ok |-> FALSE, peticiones |-> 0,
          message |-> <<"Error al procesar la petición: ",
                        "El ID del personaje debe ser un número válido">>]
  ELSE IF outcome.kind # "response" \/ outcome.status < 200 \/ outcome.status > 299
    THEN [ok |-> FALSE, peticiones |-> 1, message |-> swapiCatch(id, outcome)]
  ELSE IF outcome.status # 200
    THEN [ok |-> FALSE, peticiones |-> 1,
          message |-> <<"Error al procesar la petición: ", "Error al obtener personaje: HTTP ">>
                      \o NumText(outcome.status)]
  ELSE IF outcome.data.t \in {"null", "undefined"}
    THEN [ok |-> FALSE, peticiones |-> 1,
          message |-> <<"Error al procesar la petición: ",
                        "Cannot read properties of ", outcome.data.t>>]
  ELSE [ok |-> TRUE, peticiones |-> 1, value |-> mapPersonajeToEspanol(outcome.data)]

\* the handler up to its call of getPersonajeById
getPersonajeValidar(event) ==
  LET id == PathId(event)
  IN IF ~Truthy(id)
       THEN [fin |-> TRUE,
             resp |-> buildResponse(400,
                        [error |-> BadRequest,
                         mensaje |-> Str(<<"El ID del personaje es requerido">>),
                         detalles |-> Str(<<"Debe proporcionar un ID válido en la ruta: /personajes/swapi/{id}">>)])]
     ELSE IF ValueIsNaN(id) \/ (~ParseInt(id.v, 0).nan /\ ParseInt(id.v, 0).v <= 0)
       THEN [fin |-> TRUE,
             resp |-> buildResponse(400,
                        [error |-> BadRequest,
                         mensaje |-> Str(<<"El ID del personaje debe ser un ", "número positivo">>),
                         idRecibido |-> id])]
     ELSE [fin |-> FALSE, id |-> id]

\* a handler whose catch tests for the connection message first
getPersonajeResponderConexionPrimero(event, id, r, nodeEnv) ==
  IF r.ok
    THEN IF ~Truthy(r.value)
           THEN buildResponse(404,
                  [error |-> NotFound,
                   mensaje |-> Str(<<"No se encontró el personaje con ID ">> \o id.v \o <<" en SWAPI">>),
                   idBuscado |-> id])
           ELSE buildResponse(200,
                  [exito |-> Bool(TRUE),
                   mensaje |-> Str(<<"Personaje obtenido exitosamente desde SWAPI">>),
                   datos |-> r.value])
  ELSE IF Includes(r.message, "conectar")
    THEN buildResponse(503,
           [error |-> ServiceUnavailable,
            mensaje |-> Str(<<"No se pudo conectar con el servicio de Star Wars">>),
            detalles |-> Str(r.message)])
  ELSE IF Includes(r.message, "no encontrado")
    THEN buildResponse(404,
           [error |-> NotFound, mensaje |-> Str(r.message), idBuscado |-> PathId(event)])
  ELSE buildResponse(500,
         [error |-> InternalServerError,
          mensaje |-> Str(<<"Ocurrió un error al procesar la solicitud">>),
          detalles |-> Detalles(nodeEnv, r.message, <<"Error interno del servidor">>)])

\* the handler after getPersonajeById has settled with r
getPersonajeResponder(event, id, r, nodeEnv) ==
  IF r.ok
    THEN IF ~Truthy(r.value)
           THEN buildResponse(404,
                  [error |-> NotFound,
                   mensaje |-> Str(<<"No se encontró el personaje con ID ">> \o id.v \o <<" en SWAPI">>),
                   idBuscado |-> id])
           ELSE buildResponse(200,
                  [exito |-> Bool(TRUE),
                   mensaje |-> Str(<<"Personaje obtenido exitosamente desde SWAPI">>),
                   datos |-> r.value])
  ELSE IF Includes(r.message, "no encontrado")
    THEN buildResponse(404,
           [error |-> NotFound, mensaje |-> Str(r.message), idBuscado |-> PathId(event)])
  ELSE IF Includes(r.message, "conectar")
    THEN buildResponse(503,
           [error |-> ServiceUnavailable,
            mensaje |-> Str(<<"No se pudo conectar con el servicio de Star Wars">>),
            detalles |-> Str(r.message)])
  ELSE buildResponse(500,
         [error |-> InternalServerError,
          mensaje |-> Str(<<"Ocurrió un error al procesar la solicitud">>),
          detalles |-> Detalles(nodeEnv, r.message, <<"Error interno del servidor">>)])

HandlerGetPersonaje(p, event) ==
  /\ inv[p].pc = "idle"
  /\ LET r == getPersonajeValidar(event)
     IN inv' = [inv EXCEPT ![p] =
                  IF r.fin
                    THEN Done("getPersonaje", event, Undefined, 0, r.resp)
                    ELSE Awaiting("getPersonaje", event, r.id)]
  /\ UNCHANGED <<TABLA_PERSONAJES, NODE_ENV, tablaDynamo, reloj, mapper>>

HandlerGetPersonajeAwait(p, outcome) ==
  /\ inv[p].pc = "awaiting"
  /\ inv[p].handler = "getPersonaje"
  /\ LET r == getPersonajeById(inv[p].arg, outcome)
     IN inv' = [inv EXCEPT ![p] =
                  Settled("getPersonaje", inv[p].event, inv[p].arg, r,
                          getPersonajeResponder(inv[p].event, inv[p].arg, r, NODE_ENV))]
  /\ UNCHANGED <<TABLA_PERSONAJES, NODE_ENV, tablaDynamo, reloj, mapper>>

\* ------------------------------------------------------------------------
\* The platform: the clock advances, a returned response leaves its slot
\* ------------------------------------------------------------------------

Tick ==
  /\ reloj < MaxClock
  /\ reloj' = reloj + 1
  /\ UNCHANGED <<TABLA_PERSONAJES, NODE_ENV, tablaDynamo, inv, mapper>>

\* the response has been delivered; the slot takes the next request
Responder(p) ==
  /\ inv[p].pc = "done"
  /\ inv' = [inv EXCEPT ![p] = Idle]
  /\ UNCHANGED <<TABLA_PERSONAJES, NODE_ENV, tablaDynamo, reloj, mapper>>

\* ------------------------------------------------------------------------
\* Inputs
\* ------------------------------------------------------------------------

\* the identifiers uuidv4() can return
Uuids == {<<"u", "1">>, <<"u", "2">>}

Faults == {NoFault} \cup SdkFaults

Personaje(upd) == Text(ObjOf(With(SinCampos, upd)))

PathParams(id) == ObjOf([id |-> id])

Query(limite, limit) == ObjOf([limite |-> limite, limit |-> limit])

Test == Str(<<"T", "e", "s", "t">>)

Masculino == <<"m", "a", "s", "c", "u", "l", "i", "n", "o">>

\* request bodies of the full system
Cuerpos ==
  {Personaje([nombre |-> Test]),
   Personaje([nombre |-> Str(<<" ", "Y", "o", "d", "a">>),
              genero |-> Str(<<"M", "A", "S", "C", "U", "L", "I", "N", "O">>)]),
   Personaje([altura |-> Str(<<"1", "8", "2">>)]),
   Personaje([nombre |-> Test, genero |-> Num(5)])}

\* path parameters of GET /personajes/{id}
RutasLocales ==
  {Null, PathParams(Undefined), PathParams(Str(<<>>)), PathParams(Str(<<" ">>)),
   PathParams(Str(<<"u", "1">>)), PathParams(Str(<<"u", "1", " ">>)),
   PathParams(Str(<<"u", "2">>))}

\* query strings of GET /personajes
Consultas ==
  {Null, Query(Str(<<"1">>), Undefined), Query(Undefined, Str(<<"2", "0", "0">>)),
   Query(Str(<<"a", "b", "c">>), Str(<<"2">>))}

Luke ==
  [t |-> "object",
   entries |-> << [k |-> "name", v |-> Str(<<"L", "u", "k", "e">>)],
                  [k |-> "gender", v |-> Str(<<"M", "a", "l", "e">>)],
                  [k |-> "films", v |-> Arr(<<Str(<<"n", "o", "n", "e">>)>>)] >>]

\* what the catalog can answer
Catalogo ==
  {AxiosResponse(200, <<"OK">>, Luke), AxiosResponse(200, <<"OK">>, Str(<<>>)),
   AxiosResponse(404, <<"Not Found">>, Null), AxiosResponse(403, <<"Forbidden">>, Null),
   AxiosResponse(502, <<"recurso ", "no encontrado", ", no se pudo ", "conectar">>, Null),
   AxiosResponse(504, <<"no se pudo ", "conectar">>, Null),
   AxiosNoResponse}

\* path parameters of GET /personajes/swapi/{id} of the full system
RutasSwapi == {Null, PathParams(Str(<<"4">>)), PathParams(Str(<<"a", "b", "c">>))}

\* ------------------------------------------------------------------------
\* The full system: every handler, invocations interleaved at their awaits
\* ------------------------------------------------------------------------

Init ==
  /\ TABLA_PERSONAJES \in {Undefined, Str(<<"personajes">>)}
  /\ NODE_ENV \in {"development", "production"}
  /\ tablaDynamo = {}
  /\ reloj = 1
  /\ inv = [p \in Procs |-> Idle]
  /\ mapper = SinLlamada

Next ==
  \/ Tick
  \/ \E p \in Procs : Responder(p)
  \/ \E p \in Procs, body \in Cuerpos, uuid \in Uuids : HandlerCrearEntidad(p, [body |-> body], uuid)
  \/ \E p \in Procs, fault \in Faults : HandlerCrearEntidadAwait(p, fault)
  \/ \E p \in Procs, pp \in RutasLocales : HandlerObtenerPersonaje(p, [pathParameters |-> pp])
  \/ \E p \in Procs, fault \in Faults : HandlerObtenerPersonajeAwait(p, fault)
  \/ \E p \in Procs, q \in Consultas : HandlerListarPersonajes(p, [queryStringParameters |-> q])
  \/ \E p \in Procs, fault \in Faults, orden \in ScanOrders(tablaDynamo) :
       HandlerListarPersonajesAwait(p, fault, orden)
  \/ \E p \in Procs, pp \in RutasSwapi : HandlerGetPersonaje(p, [pathParameters |-> pp])
  \/ \E p \in Procs, outcome \in Catalogo : HandlerGetPersonajeAwait(p, outcome)

Spec == Init /\ [][Next]_vars

\* ------------------------------------------------------------------------
\* GET /personajes/swapi/{id} alone, on every id up to MaxIdLen characters
\* ------------------------------------------------------------------------

IdChars == {"0", "5", "-", "+", ".", " ", "a", "e", "x"}

IdsSwapi ==
  (UNION {[1..n -> IdChars] : n \in 0..MaxIdLen}) \cup {InfinityChars, <<"a", "b", "c">>}

RutasSwapiTodas == {Null, PathParams(Undefined)} \cup {PathParams(Str(s)) : s \in IdsSwapi}

InitUno ==
  /\ TABLA_PERSONAJES = Str(<<"personajes">>)
  /\ NODE_ENV \in {"development", "production"}
  /\ tablaDynamo = {}
  /\ reloj = 1
  /\ inv = [p \in Procs |-> Idle]
  /\ mapper = SinLlamada

NextGetPersonaje ==
  \/ Responder("a")
  \/ \E pp \in RutasSwapiTodas : HandlerGetPersonaje("a", [pathParameters |-> pp])
  \/ \E outcome \in Catalogo : HandlerGetPersonajeAwait("a", outcome)

SpecGetPersonaje == InitUno /\ [][NextGetPersonaje]_vars

\* ------------------------------------------------------------------------
\* POST /personajes alone, one request at a time, on a wide set of bodies
\* ------------------------------------------------------------------------

ValoresGenero ==
  {Undefined, Null, Str(<<>>), Str(<<" ">>), Str(Masculino),
   Str(<<"M", "A", "S", "C", "U", "L", "I", "N", "O">>),
   Str(<<"F", "e", "m", "e", "n", "i", "n", "o">>),
   Str(<<"h", "e", "r", "m", "a", "f", "r", "o", "d", "i", "t", "a">>),
   Str(<<"N", "/", "A">>),
   Str(<<"d", "e", "s", "c", "o", "n", "o", "c", "i", "d", "o">>),
   Str(<<" ", "n", "/", "a">>),
   Str(<<"i", "n", "v", "a", "l", "i", "d", "o">>),
   Str(<<"m", "a", "l", "e">>),
   Num(0), Num(5), Bool(TRUE), Arr(<<>>), Arr(<<Str(Masculino)>>), Obj}

ValoresNumericos ==
  {Undefined, Null, Str(<<>>), Str(<<" ">>), Str(<<"1", "8", "2">>),
   Str(<<" ", "1", "8", "2", " ">>), Str(<<"a", "b", "c">>), Str(<<"1", ".", "5">>),
   Str(<<"-", "5">>), Str(<<"1", "e", "3">>), Str(<<"1", "8", "2", "c", "m">>),
   Str(<<"u", "n", "k", "n", "o", "w", "n">>),
   Num(182), Num(0), Bool(TRUE), Arr(<<>>), Arr(<<Str(<<"a", "b", "c">>)>>), Obj}

ValoresTexto == {Undefined, Str(<<" ", "r", "u", "b", "i", "o", " ">>), Arr(<<Str(<<"a">>)>>), Num(7)}

ValoresLista == {Undefined, Arr(<<>>), Arr(<<Str(<<"f", "1">>)>>), Str(<<"f", "1">>), Null}

ValoresNombre == {Undefined, Test, Str(<<" ", "T", "e", "s", "t", " ">>), Str(<<" ", " ">>), Str(<<>>), Num(5), Arr(<<Str(<<"a">>)>>)}

CuerposTodos ==
  {Undefined, Null, Str(<<>>), Text(NoJson), Text(Null), Text(Arr(<<>>)), Text(Num(5)),
   Text(Num(0)), Text(Bool(FALSE)), Text(Bool(TRUE)), Text(Str(<<"a">>)),
   Text(Arr(<<Str(<<"a">>)>>))}
  \cup {Personaje([nombre |-> Test, genero |-> g, altura |-> a]) :
          g \in ValoresGenero, a \in ValoresNumericos}
  \cup {Personaje([nombre |-> Test, masa |-> m, color_de_cabello |-> c, peliculas |-> l]) :
          m \in ValoresNumericos, c \in ValoresTexto, l \in ValoresLista}
  \cup {Personaje([nombre |-> n, altura |-> a, naves_espaciales |-> l,
                   id |-> i]) :
          n \in ValoresNombre, a \in {Undefined, Str(<<"a", "b", "c">>)},
          l \in {Undefined, Str(<<"f", "1">>)}, i \in {Undefined, Str(<<"u", "2">>)}}
  \cup {Personaje([nombre |-> n, genero |-> Num(5), creado |-> Str(<<"a", "y", "e", "r">>)]) :
          n \in ValoresNombre}
  \cup {Personaje([nombre |-> Str(<<" ", "Y", "o", "d", "a">>), id |-> Str(<<"m", "i", "o">>),
                   creado |-> Str(<<"a", "y", "e", "r">>), actualizado |-> Num(7),
                   color_de_ojos |-> Str(<<" ">>), especies |-> Arr(<<Str(<<" ", "e">>)>>)])}

NextCrear ==
  \/ Responder("a")
  \/ \E body \in CuerposTodos : HandlerCrearEntidad("a", [body |-> body], <<"u", "1">>)
  \/ \E fault \in Faults : HandlerCrearEntidadAwait("a", fault)

SpecCrear == InitUno /\ [][NextCrear]_vars

\* ------------------------------------------------------------------------
\* POST /personajes alone with the clock running and either identifier
\* minted, on bodies that bring an id, a creado and an actualizado of their
\* own
\* ------------------------------------------------------------------------

CuerposConSello ==
  {Personaje([nombre |-> Test, id |-> i, creado |-> c, actualizado |-> a]) :
     i \in {Undefined, Str(<<"m", "i", "o">>), Str(<<"u", "2">>)},
     c \in {Undefined, Str(<<"a", "y", "e", "r">>), Str(ToISOString(9))},
     a \in {Undefined, Num(7), Str(ToISOString(1))}}

NextCrearSello ==
  \/ Tick
  \/ Responder("a")
  \/ \E body \in CuerposConSello, uuid \in Uuids :
       HandlerCrearEntidad("a", [body |-> body], uuid)
  \/ \E fault \in Faults : HandlerCrearEntidadAwait("a", fault)

SpecCrearSello == InitUno /\ [][NextCrearSello]_vars

\* ------------------------------------------------------------------------
\* GET /personajes alone, on a table that already holds items.  The table
\* is written by guardarPersonaje on behalf of any caller, so an item need
\* not carry creado: the comparator of the handler provides for that.
\* ------------------------------------------------------------------------

Almacenado(id, creado) ==
  With(SinCampos,
       [id |-> Str(id), nombre |-> Test, peliculas |-> Arr(<<>>), especies |-> Arr(<<>>),
        vehiculos |-> Arr(<<>>), naves_espaciales |-> Arr(<<>>), creado |-> creado])

ItemsPrevios ==
  {Almacenado(<<"p", "1">>, Str(ToISOString(1))),
   Almacenado(<<"p", "2">>, Str(ToISOString(2))),
   Almacenado(<<"p", "3">>, Str(ToISOString(3))),
   Almacenado(<<"p", "4">>, Undefined),
   Almacenado(<<"p", "5">>, Undefined)}

ConsultasListar == {Null, Query(Str(<<"1">>), Undefined), Query(Undefined, Str(<<"3">>))}

InitListar ==
  /\ TABLA_PERSONAJES = Str(<<"personajes">>)
  /\ NODE_ENV \in {"development", "production"}
  /\ tablaDynamo \in SUBSET ItemsPrevios
  /\ reloj = 1
  /\ inv = [p \in Procs |-> Idle]
  /\ mapper = SinLlamada

NextListar ==
  \/ Responder("a")
  \/ \E q \in ConsultasListar : HandlerListarPersonajes("a", [queryStringParameters |-> q])
  \/ \E fault \in Faults, orden \in ScanOrders(tablaDynamo) :
       HandlerListarPersonajesAwait("a", fault, orden)

SpecListar == InitListar /\ [][NextListar]_vars

\* ------------------------------------------------------------------------
\* GET /personajes alone, on every page-size text up to MaxLimiteLen
\* characters, under either parameter name
\* ------------------------------------------------------------------------

LimiteChars == {"0", "1", "2", "9", "-", "a", "e", " ", "."}

TextosLimite == UNION {[1..n -> LimiteChars] : n \in 0..MaxLimiteLen}

ConsultasTodas ==
  {Undefined, Null, Query(Undefined, Undefined)}
  \cup {Query(Str(s), Undefined) : s \in TextosLimite}
  \cup {Query(Undefined, Str(s)) : s \in TextosLimite}
  \cup {Query(Str(a), Str(b)) : a, b \in {<<>>, <<"0">>, <<"7">>, <<"a">>, <<"2", "0">>}}

NextLimite ==
  \/ Responder("a")
  \/ \E q \in ConsultasTodas : HandlerListarPersonajes("a", [queryStringParameters |-> q])
  \/ \E fault \in Faults, orden \in ScanOrders(tablaDynamo) :
       HandlerListarPersonajesAwait("a", fault, orden)

SpecLimite == InitUno /\ [][NextLimite]_vars

\* ------------------------------------------------------------------------
\* The mapper module on its own: each exported function applied to one
\* argument
\* ------------------------------------------------------------------------

\* fn is about to be called with arg
Llamada(fn, arg) == [fn |-> fn, arg |-> arg, hecho |-> FALSE, ret |-> Undefined]

\* the pending call of fn returns ret
Retorno(fn, ret) ==
  /\ mapper.fn = fn
  /\ ~mapper.hecho
  /\ mapper' = [mapper EXCEPT !.hecho = TRUE, !.ret = ret]
  /\ UNCHANGED <<TABLA_PERSONAJES, NODE_ENV, tablaDynamo, reloj, inv>>

CallTranslateFieldName == Retorno("translateFieldName", translateFieldName(mapper.arg))

CallTranslateValue == Retorno("translateValue", translateValue(mapper.arg))

CallMapPersonajeToEspanol == Retorno("mapPersonajeToEspanol", mapPersonajeToEspanol(mapper.arg))

CallMapPersonajesToEspanol == Retorno("mapPersonajesToEspanol", mapPersonajesToEspanol(mapper.arg))

CallExtractIdFromUrl == Retorno("extractIdFromUrl", extractIdFromUrl(mapper.arg))

Male == Str(<<"M", "a", "l", "e">>)

\* field names: the sixteen of the map, names the map does not have, names
\* every object inherits, and values that are not names
NombresDeCampo ==
  {Str(<<k>>) : k \in DOMAIN PERSONAJE_FIELD_MAP}
  \cup {Str(<<k>>) : k \in {"nombre", "custom", "id", "Name", "undefined", "null", "0",
                            "constructor", "toString", "valueOf", "hasOwnProperty",
                            "__proto__"}}
  \cup {Undefined, Null, Str(<<>>), Num(0), Num(5), Bool(FALSE), Bool(TRUE)}

\* values: every string of up to MaxValorLen letters of 'male' in either
\* case, the other known values in several spellings, strings that are not
\* known values, and values that are not strings
Valores ==
  {Str(v) : v \in UNION {[1..n -> {"m", "a", "l", "e", "M", "A", "L", "E"}] :
                            n \in 0..MaxValorLen}}
  \cup {Str(VALUE_TRANSLATIONS[i].k) : i \in 1..Len(VALUE_TRANSLATIONS)}
  \cup {Str(<<"U", "N", "K", "N", "O", "W", "N">>), Str(<<"N", "/", "A">>),
        Str(<<"B", "l", "u", "e">>), Str(<<"b", "l", "u", "e", " ">>),
        Str(<<"L", "u", "k", "e">>), Str(Masculino),
        Str(<<"c", "o", "n", "s", "t", "r", "u", "c", "t", "o", "r">>),
        Str(<<"C", "o", "n", "s", "t", "r", "u", "c", "t", "o", "r">>),
        Str(<<"_", "_", "p", "r", "o", "t", "o", "_", "_">>),
        Str(<<"t", "o", "S", "t", "r", "i", "n", "g">>),
        Str(<<"v", "a", "l", "u", "e", "o", "f">>)}
  \cup {Undefined, Null, Num(0), Num(5), Bool(TRUE), Arr(<<Male>>), Luke}

\* objects of up to MaxCampos own fields, in every insertion order
Objetos ==
  {[t |-> "object", entries |-> e] :
     e \in UNION {{f \in [1..n ->
                            [k : {"name", "nombre", "gender", "films", "custom", "constructor"},
                             v : {Male, Num(5), Arr(<<Str(<<"n", "o", "n", "e">>), Num(1)>>)}]] :
                     \A i, j \in 1..n : i # j => f[i].k # f[j].k} : n \in 0..MaxCampos}}

\* what mapPersonajeToEspanol can be given: objects, arrays, and values that
\* are not objects
Personajes ==
  Objetos
  \cup {Luke, Arr(<<>>), Arr(<<Male, Num(5)>>)}
  \cup {Undefined, Null, Str(<<>>), Str(<<"s", "t", "r", "i", "n", "g">>), Num(0), Num(5),
        Bool(FALSE), Bool(TRUE), BuiltIn("Object", "function Object() { [native code] }")}

ElementosLista ==
  {Luke,
   [t |-> "object",
    entries |-> << [k |-> "name", v |-> Str(<<"L", "e", "i", "a">>)],
                   [k |-> "gender", v |-> Str(<<"f", "e", "m", "a", "l", "e">>)] >>],
   [t |-> "object", entries |-> <<>>], Null, Undefined,
   Str(<<"i", "n", "v", "a", "l", "i", "d">>), Num(0), Arr(<<>>)}

\* arrays of up to MaxLista elements, and values that are not arrays
Listas ==
  {Arr(a) : a \in UNION {[1..n -> ElementosLista] : n \in 0..MaxLista}}
  \cup {Undefined, Null, Luke, Str(<<"s", "t", "r", "i", "n", "g">>), Num(5), Bool(TRUE)}

\* urls: every string of up to MaxUrlLen characters of '/', '1', '2', 'a', the urls of
\* the catalog, and values that are not strings
Urls ==
  {Str(u) : u \in UNION {[1..n -> {"/", "1", "2", "a"}] : n \in 0..MaxUrlLen}}
  \cup {Str(<<"h", "t", "t", "p", "s", ":", "/", "/", "s", "w", "a", "p", "i", ".", "d", "e", "v",
              "/", "a", "p", "i", "/", "p", "e", "o", "p", "l", "e", "/", "1", "0", "/">>),
        Str(<<"/", "p", "e", "o", "p", "l", "e", "/", "1", "\n">>),
        Str(<<"/", "p", "e", "o", "p", "l", "e", "/", "1", "/", "?", "x", "=", "2">>)}
  \cup {Undefined, Null, Num(0), Num(123), Bool(TRUE), Arr(<<>>), Luke}

InitMapper ==
  /\ TABLA_PERSONAJES = Str(<<"personajes">>)
  /\ NODE_ENV = "production"
  /\ tablaDynamo = {}
  /\ reloj = 1
  /\ inv = [p \in Procs |-> Idle]
  /\ mapper \in {Llamada("translateFieldName", x) : x \in NombresDeCampo}
                \cup {Llamada("translateValue", x) : x \in Valores}
                \cup {Llamada("mapPersonajeToEspanol", x) : x \in Personajes}
                \cup {Llamada("mapPersonajesToEspanol", x) : x \in Listas}
                \cup {Llamada("extractIdFromUrl", x) : x \in Urls}

NextMapper ==
  \/ CallTranslateFieldName
  \/ CallTranslateValue
  \/ CallMapPersonajeToEspanol
  \/ CallMapPersonajesToEspanol
  \/ CallExtractIdFromUrl

SpecMapper == InitMapper /\ [][NextMapper]_vars

\* ------------------------------------------------------------------------
\* Properties
\* ------------------------------------------------------------------------

Status(p) == inv[p].resp.statusCode

Body(p) == inv[p].resp.body

HasKey(obj, k) == k \in DOMAIN obj

\* the response of p is an error of the given status and category
IsError(p, status, categoria) ==
  /\ inv[p].pc = "done"
  /\ Status(p) = status
  /\ HasKey(Body(p), "error")
  /\ Body(p)["error"] = categoria

\* the errores list of the response of p has a message that names the field
ErroresNombran(p, campo) ==
  /\ HasKey(Body(p), "errores")
  /\ \E i \in 1..Len(Body(p)["errores"].v) : Includes(Body(p)["errores"].v[i].v, campo)

\* a positive integer written in decimal digits
IsPositiveIntegerText(id) ==
  /\ id.t = "string"
  /\ id.v # <<>>
  /\ AllIn(id.v, DigitChars)
  /\ DigitsValue(id.v, 10) > 0

\* C1: in the get-external handler every id that is missing, not numeric or
\* not greater than 0 is answered 400 'Bad Request' without a call of
\* getPersonajeById, the positive-number failure echoing the raw id as
\* idRecibido; only a positive integer written as a string reaches the client.
C1_SoloEnterosPositivos ==
  \A p \in Procs :
    (inv[p].handler = "getPersonaje" /\ ~IsPositiveIntegerText(PathId(inv[p].event)))
      => /\ inv[p].llamadas = 0
         /\ IsError(p, 400, BadRequest)
         /\ Truthy(PathId(inv[p].event))
              => (HasKey(Body(p), "idRecibido")
                  /\ Body(p)["idRecibido"] = PathId(inv[p].event))

\* the body of the create request of p is a JSON object
CuerpoObjeto(p) ==
  /\ inv[p].handler = "crearEntidad"
  /\ inv[p].event.body.t = "text"
  /\ inv[p].event.body.json.t = "object"

Datos(p) == inv[p].event.body.json.v

\* the body has a valid nombre and, of the other fields, only those in `campos`
SoloCampos(p, campos) ==
  /\ CuerpoObjeto(p)
  /\ Datos(p)["nombre"] = Test
  /\ \A k \in Campos \ ({"nombre"} \cup campos) : Datos(p)[k] = Undefined

GeneroValido(g) == g.t = "string" /\ InChars(ToLowerCase(g.v), generosValidos)

\* the validation of p passed: the handler called the store
Aceptado(p) == inv[p].llamadas = 1

\* C2: a create body with a valid nombre and a genero is accepted when genero
\* equals one of the five values case-insensitively, and is otherwise answered
\* 400 with an errores message that names genero, the store not called; for
\* every value of a genero that is present.
C2_GeneroPresente ==
  \A p \in Procs :
    (SoloCampos(p, {"genero"}) /\ Datos(p)["genero"] # Undefined)
      => IF GeneroValido(Datos(p)["genero"])
           THEN Aceptado(p)
           ELSE /\ IsError(p, 400, BadRequest)
                /\ ErroresNombran(p, "genero")
                /\ inv[p].llamadas = 0

MensajeContiene(p, texto) ==
  HasKey(Body(p), "mensaje") /\ Includes(Body(p)["mensaje"].v, texto)

\* C3: in the get-local handler an absent id is answered 400 'ID del personaje
\* es requerido', an id that is present but empty or whitespace-only is
\* answered 400 with the 'cadena válida' message, and the store is not called.
C3_IdAusenteOVacio ==
  \A p \in Procs :
    inv[p].handler = "obtenerPersonaje"
      => LET pp == inv[p].event.pathParameters
             id == PathId(inv[p].event)
         IN /\ (~Truthy(pp) \/ id = Undefined)
                 => /\ IsError(p, 400, BadRequest)
                    /\ MensajeContiene(p, "El ID del personaje es requerido")
                    /\ inv[p].llamadas = 0
            /\ (id.t = "string" /\ Trim(id.v) = <<>>)
                 => /\ IsError(p, 400, BadRequest)
                    /\ MensajeContiene(p, "cadena válida")
                    /\ inv[p].llamadas = 0

\* C4: with PERSONAJES_TABLE absent, a get-by-id or list request that reaches
\* the store service is answered 500 'Internal Server Error' with the
\* configuration message, not as downstream-unavailable.
C4_ConfiguracionAusente ==
  \A p \in Procs :
    (/\ ~Truthy(TABLA_PERSONAJES)
     /\ inv[p].handler \in {"obtenerPersonaje", "listarPersonajes"}
     /\ inv[p].pc = "done"
     /\ inv[p].llamadas = 1)
      => /\ IsError(p, 500, InternalServerError)
         /\ MensajeContiene(p, "Error de configuración del servidor")

\* p is a create call whose put has settled
CrearTerminado(p) ==
  inv[p].handler = "crearEntidad" /\ inv[p].pc = "done" /\ inv[p].llamadas = 1

\* C5: of two create calls on the same identifier, whatever the interleaving,
\* at most one succeeds (201); a call whose put reached the store is answered
\* 201 or 409 'Conflict' (a call refused by the put's condition is never
\* answered 500), the identifier is then stored, and the record stored under
\* it is the winner's, not the loser's.
C5_CarreraCrear ==
  \A p, q \in Procs :
    (/\ p # q
     /\ CrearTerminado(p)
     /\ CrearTerminado(q)
     /\ inv[p].arg["id"] = inv[q].arg["id"])
      => /\ ~(Status(p) = 201 /\ Status(q) = 201)
         /\ Status(p) # 500 => (Status(p) = 201 \/ IsError(p, 409, Str(<<"Conflict">>)))
         /\ (Status(p) # 500 \/ Status(q) # 500) => HasId(tablaDynamo, inv[p].arg["id"])
         /\ (Status(p) = 500 /\ NODE_ENV = "development")
              => ~Includes(Body(p)["detalles"].v, "The conditional request failed")
         /\ Status(p) = 201
              => /\ inv[p].arg \in tablaDynamo
                 /\ \A it \in tablaDynamo : it["id"] = inv[p].arg["id"] => it = inv[p].arg

\* two create calls with different records raced on one identifier: one
\* returned 201, the other 409
C5_Witness ==
  \E p, q \in Procs :
    /\ CrearTerminado(p)
    /\ CrearTerminado(q)
    /\ inv[p].arg["id"] = inv[q].arg["id"]
    /\ inv[p].arg # inv[q].arg
    /\ Status(p) = 201
    /\ Status(q) = 409
    /\ inv[p].arg \in tablaDynamo

\* C6: a stored record stays in the table with the content it was created
\* with: every step keeps each item, keeps identifiers unique, and changes the
\* table only by a successful create adding its own record; get-by-id and list
\* steps never write.
C6_RegistroInmutable ==
  [][/\ \A it \in tablaDynamo : it \in tablaDynamo'
     /\ \A x, y \in tablaDynamo' : x["id"] = y["id"] => x = y
     /\ tablaDynamo' # tablaDynamo
          => \E p \in Procs :
               /\ inv[p].handler = "crearEntidad"
               /\ inv[p].pc = "awaiting"
               /\ inv'[p].resp.statusCode = 201
               /\ tablaDynamo' = tablaDynamo \cup {inv[p].arg}]_vars

\* a record is stored, a later create on its identifier was refused and a
\* list has returned the stored record
C6_Witness ==
  \E p, q \in Procs :
    /\ CrearTerminado(p)
    /\ Status(p) = 409
    /\ inv[p].arg \notin tablaDynamo
    /\ inv[q].handler = "listarPersonajes"
    /\ inv[q].pc = "done"
    /\ Status(q) = 200
    /\ Body(q)["total"] = Num(1)

\* C7: a request that ends in validation, before any downstream call, is
\* answered 400; a request makes at most one downstream call, and a failed
\* call gives one failure response.
C7_ValidacionDa400 ==
  \A p \in Procs :
    /\ inv[p].llamadas <= 1
    /\ (inv[p].pc = "done" /\ inv[p].llamadas = 0) => Status(p) = 400
    /\ (inv[p].pc = "done") => Status(p) \in {200, 201, 400, 404, 409, 500, 503}

\* C8: every stored record has no genero or one of the five values in lowercase
C8_GeneroAlmacenado ==
  \A it \in tablaDynamo :
    \/ it["genero"] = Undefined
    \/ it["genero"].t = "string" /\ InChars(it["genero"].v, generosValidos)

\* a value that is present and is a string holding a number
EsNumerico(x) == x.t = "string" /\ Trim(x.v) # <<>> /\ ~StringIsNaN(x.v)

\* The fields of the body whose type rule is violated: a string field given
\* a value of another type, an array field given a non-array, an altura or
\* masa with text that is not a number, a genero with text that is not one
\* of the five values.  (An empty or blank text is not counted here.)
CamposViolados(datos) ==
  {c \in Range(camposString) : datos[c] # Undefined /\ TypeOf(datos[c]) # "string"}
  \cup {c \in Range(camposArray) : datos[c] # Undefined /\ ~IsArray(datos[c])}
  \cup {c \in {"altura", "masa"} :
          datos[c].t = "string" /\ Trim(datos[c].v) # <<>> /\ StringIsNaN(datos[c].v)}
  \cup {c \in {"genero"} :
          datos[c].t = "string" /\ datos[c].v # <<>> /\ ~GeneroValido(datos[c])}

\* C9: a create body that violates several type rules at once is answered 400
\* with an errores message for each violated rule, the store not called.
C9_TodosLosErrores ==
  \A p \in Procs :
    (/\ CuerpoObjeto(p)
     /\ Datos(p)["nombre"] = Test
     /\ Cardinality(CamposViolados(Datos(p))) >= 2)
      => /\ IsError(p, 400, BadRequest)
         /\ \A c \in CamposViolados(Datos(p)) : ErroresNombran(p, c)
         /\ inv[p].llamadas = 0

\* C10: altura and masa, when present, are accepted only if they hold a
\* number; any other present value is answered 400 with an errores message
\* naming the field.
C10_AlturaMasaNumericas ==
  \A p \in Procs, c \in {"altura", "masa"} :
    (SoloCampos(p, {c}) /\ Datos(p)[c] # Undefined)
      => IF EsNumerico(Datos(p)[c])
           THEN Aceptado(p)
           ELSE /\ IsError(p, 400, BadRequest)
                /\ ErroresNombran(p, c)
                /\ inv[p].llamadas = 0

\* p is a list request that was answered 200
ListaRespondida(p) ==
  inv[p].handler = "listarPersonajes" /\ inv[p].pc = "done" /\ Status(p) = 200

\* C11: every 200 response of the list handler, the one for zero results
\* included, carries exito, mensaje, total, the resolved limite and datos;
\* zero results give the 'no records' message, total 0 and datos []; total
\* is the number of records in datos.
C11_FormaDeLista ==
  \A p \in Procs :
    ListaRespondida(p)
      => /\ {"exito", "mensaje", "total", "limite", "datos"} \subseteq DOMAIN Body(p)
         /\ Body(p)["exito"] = Bool(TRUE)
         /\ Body(p)["limite"] = inv[p].arg
         /\ IsArray(Body(p)["datos"])
         /\ Body(p)["total"] = Num(Len(Body(p)["datos"].v))
         /\ Len(inv[p].resultado.value) = 0
              => /\ MensajeContiene(p, "No hay personajes almacenados")
                 /\ Body(p)["total"] = Num(0)
                 /\ Body(p)["datos"] = Arr(<<>>)

\* the subsequence of the records of s that lack creado
SinCreado(s) == SelectSeq(s, LAMBDA it : ~Truthy(it["creado"]))

\* the records of a datos array
Registros(datos) == [i \in 1..Len(datos.v) |-> datos.v[i].v]

\* C12: datos of a 200 list response is sorted by creado descending: of two
\* returned records that both carry creado the more recent comes first,
\* whatever the order the store returned them in and whether or not records
\* without creado are among them; datos holds the records the store
\* returned, and those without creado keep their relative order.
C12_OrdenDescendente ==
  \A p \in Procs :
    ListaRespondida(p)
      => LET d == Registros(Body(p)["datos"])
             recibidos == inv[p].resultado.value
         IN /\ Len(d) = Len(recibidos)
            /\ Range(d) = Range(recibidos)
            /\ SinCreado(d) = SinCreado(recibidos)
            /\ \A i, j \in 1..Len(d) :
                 (i < j /\ Truthy(d[i]["creado"]) /\ Truthy(d[j]["creado"]))
                   => DateOf(d[i]["creado"]).v >= DateOf(d[j]["creado"]).v

\* the query supplies the page size under at most one name
UnSoloNombre(event) ==
  LET q == event.queryStringParameters
  IN q.t = "object" => (q.v.limite = Undefined \/ q.v.limit = Undefined)

\* the page size under whichever name carries it
TextoSuministrado(event) ==
  LET q == event.queryStringParameters
  IN IF q.t # "object" THEN Undefined
     ELSE IF q.v.limite # Undefined THEN q.v.limite ELSE q.v.limit

\* an integer written in decimal digits, with an optional sign
EsEnteroDecimal(s) ==
  LET t == Trim(s)
  IN StripSign(t) # <<>> /\ AllIn(StripSign(t), DigitChars)

\* The limit the rule gives for a supplied text: 50 for text that is not a
\* number, for zero (blank text counts as zero) and for a negative integer,
\* 100 for an integer above 100, the integer itself otherwise; 0 stands for
\* the texts the rule does not pin to a value (numbers that are not integers).
LimiteEsperado(s) ==
  IF Trim(s) = <<>> \/ StringIsNaN(s) THEN 50
  ELSE IF EsEnteroDecimal(s)
    THEN LET n == ParseInt(Trim(s), 10).v
         IN IF n <= 0 THEN 50 ELSE IF n > 100 THEN 100 ELSE n
  ELSE 0

\* C13: the list handler queries the store exactly once, with an integer in
\* 1..100: 50 when the page size is absent, not numeric, zero or negative,
\* 100 when it exceeds 100, the supplied value otherwise, under either of
\* the names limite and limit.
C13_LimiteResuelto ==
  \A p \in Procs :
    inv[p].handler = "listarPersonajes"
      => /\ inv[p].llamadas = 1
         /\ inv[p].arg.t = "number"
         /\ inv[p].arg.v \in 1..100
         /\ UnSoloNombre(inv[p].event)
              => LET texto == TextoSuministrado(inv[p].event)
                 IN IF texto = Undefined THEN inv[p].arg.v = 50
                    ELSE LimiteEsperado(texto.v) # 0
                           => inv[p].arg.v = LimiteEsperado(texto.v)

\* p has returned after its awaited call settled
Resuelto(p, handlers) ==
  inv[p].handler \in handlers /\ inv[p].pc = "done" /\ inv[p].llamadas = 1

\* C14: for an id that passed validation the get-external handler maps what
\* the client settled with to one response: a populated record gives 200 with
\* that record as datos; an empty result gives 404 echoing the id as
\* idBuscado; a failure whose message says 'no encontrado' gives 404; one
\* whose message says 'conectar' gives 503; any other failure gives 500; a
\* message with both patterns is decided by the first branch, not-found.
C14_ResultadoDelCliente ==
  \A p \in Procs :
    Resuelto(p, {"getPersonaje"})
      => LET r == inv[p].resultado
         IN IF r.ok /\ Truthy(r.value)
              THEN /\ Status(p) = 200
                   /\ Body(p)["exito"] = Bool(TRUE)
                   /\ Body(p)["datos"] = r.value
            ELSE IF r.ok
              THEN /\ IsError(p, 404, NotFound)
                   /\ Body(p)["idBuscado"] = inv[p].arg
            ELSE IF Includes(r.message, "no encontrado")
              THEN IsError(p, 404, NotFound)
            ELSE IF Includes(r.message, "conectar")
              THEN IsError(p, 503, ServiceUnavailable)
            ELSE IsError(p, 500, InternalServerError)

\* the client failed with a message that says both 'no encontrado' and
\* 'conectar', and the handler answered 404
C14_Witness ==
  \E p \in Procs :
    /\ Resuelto(p, {"getPersonaje"})
    /\ ~inv[p].resultado.ok
    /\ Includes(inv[p].resultado.message, "no encontrado")
    /\ Includes(inv[p].resultado.message, "conectar")
    /\ IsError(p, 404, NotFound)

\* C15: the get-local and list handlers classify a store failure by its
\* message: one containing 'DynamoDB' gives 503 'Service Unavailable';
\* otherwise one containing 'variable de entorno' gives 500 with the
\* configuration message; anything else gives 500; a message with both
\* substrings is decided by the first branch, 503.
C15_FalloDelAlmacen ==
  \A p \in Procs :
    (Resuelto(p, {"obtenerPersonaje", "listarPersonajes"}) /\ ~inv[p].resultado.ok)
      => LET message == inv[p].resultado.message
         IN IF Includes(message, "DynamoDB")
              THEN IsError(p, 503, ServiceUnavailable)
            ELSE IF Includes(message, "variable de entorno")
              THEN /\ IsError(p, 500, InternalServerError)
                   /\ MensajeContiene(p, "Error de configuración del servidor")
            ELSE IsError(p, 500, InternalServerError)

\* a get-by-id and a list request both failed in the store with a message
\* that contains 'DynamoDB' and 'variable de entorno', and were answered 503
C15_Witness ==
  \E p, q \in Procs :
    /\ Resuelto(p, {"obtenerPersonaje"})
    /\ Resuelto(q, {"listarPersonajes"})
    /\ \A x \in {p, q} :
         /\ ~inv[x].resultado.ok
         /\ Includes(inv[x].resultado.message, "DynamoDB")
         /\ Includes(inv[x].resultado.message, "variable de entorno")
         /\ IsError(x, 503, ServiceUnavailable)

\* C16: in the create handler a conflict reported by the store gives 409
\* 'Conflict' carrying the store's message; every other store failure, a
\* connectivity failure and a missing table setting included, gives 500
\* 'Internal Server Error'; create never answers 503.
C16_FalloAlCrear ==
  \A p \in Procs :
    /\ (inv[p].handler = "crearEntidad" /\ inv[p].pc = "done") => Status(p) # 503
    /\ Resuelto(p, {"crearEntidad"})
         => LET r == inv[p].resultado
            IN /\ r.ok => Status(p) = 201
               /\ (~r.ok /\ Includes(r.message, "Ya existe"))
                    => /\ IsError(p, 409, Str(<<"Conflict">>))
                       /\ Body(p)["mensaje"] = Str(r.message)
                       /\ HasId(tablaDynamo, inv[p].arg["id"])
               /\ (~r.ok /\ ~Includes(r.message, "Ya existe"))
                    => IsError(p, 500, InternalServerError)
               /\ ~Truthy(TABLA_PERSONAJES) => IsError(p, 500, InternalServerError)

\* one create was refused for a duplicate identifier and answered 409, another
\* met a connectivity failure of the store and was answered 500
C16_Witness ==
  \E p, q \in Procs :
    /\ Resuelto(p, {"crearEntidad"})
    /\ Resuelto(q, {"crearEntidad"})
    /\ IsError(p, 409, Str(<<"Conflict">>))
    /\ Includes(inv[p].resultado.message, "Ya existe")
    /\ IsError(q, 500, InternalServerError)
    /\ Includes(inv[q].resultado.message, "connect ETIMEDOUT")

\* p is a create request answered 400 by the body stage with the given
\* message: no later stage ran and the store was not called
RechazoDelCuerpo(p, texto) ==
  /\ IsError(p, 400, BadRequest)
  /\ Body(p)["mensaje"] = Str(<<texto>>)
  /\ ~HasKey(Body(p), "camposFaltantes")
  /\ ~HasKey(Body(p), "errores")
  /\ inv[p].llamadas = 0

\* C17: in the create handler an empty or absent body is answered 400 'body
\* is empty', text that is not JSON 400 'body must be valid JSON', and a
\* parsed value that is not an object (array, null or scalar) 400 'body must
\* be a JSON object'; each before any later stage and before the store.
C17_EtapaDelCuerpo ==
  \A p \in Procs :
    inv[p].handler = "crearEntidad"
      => LET body == inv[p].event.body
         IN /\ (body.t \in {"undefined", "null"} \/ body = Str(<<>>))
                 => RechazoDelCuerpo(p, "El cuerpo de la petición está vacío")
            /\ (body.t = "text" /\ body.json = NoJson)
                 => RechazoDelCuerpo(p, "El cuerpo de la petición no es un JSON válido")
            /\ (body.t = "text" /\ body.json # NoJson /\ body.json.t # "object")
                 => RechazoDelCuerpo(p, "El cuerpo debe ser un objeto JSON válido")

\* a create request whose body is a JSON array was answered by the body stage
C17_Witness ==
  \E p \in Procs :
    /\ inv[p].handler = "crearEntidad"
    /\ inv[p].event.body.t = "text"
    /\ IsArray(inv[p].event.body.json)
    /\ RechazoDelCuerpo(p, "El cuerpo debe ser un objeto JSON válido")

\* a nombre that is absent, not a string, or blank after trimming
NombreInvalido(x) == x = Undefined \/ x.t # "string" \/ Trim(x.v) = <<>>

\* p is a create request answered 400 by the required-field stage
RechazoPorNombre(p) ==
  /\ IsError(p, 400, BadRequest)
  /\ HasKey(Body(p), "camposFaltantes")
  /\ \E i \in 1..Len(Body(p)["camposFaltantes"].v) :
       Body(p)["camposFaltantes"].v[i] = Str(<<"nombre">>)
  /\ HasKey(Body(p), "ejemplo")
  /\ ~HasKey(Body(p), "errores")
  /\ inv[p].llamadas = 0

\* C18: a create body whose nombre is absent, is not a string, or is empty
\* or whitespace-only after trimming is answered 400 with camposFaltantes
\* containing 'nombre' and an example payload; the type validation is not run
\* and the store is not called.
C18_NombreObligatorio ==
  \A p \in Procs :
    (CuerpoObjeto(p) /\ NombreInvalido(Datos(p)["nombre"])) => RechazoPorNombre(p)

\* a body with a whitespace-only nombre and a genero the type validation
\* cannot take was answered by the required-field stage
C18_Witness ==
  \E p \in Procs :
    /\ CuerpoObjeto(p)
    /\ Datos(p)["nombre"] = Str(<<" ", " ">>)
    /\ Datos(p)["genero"] = Num(5)
    /\ RechazoPorNombre(p)

\* C19: a create whose body passed validation and whose put the store
\* accepted is answered 201 with the persisted record as datos, stored once;
\* the record carries a minted identifier (not the body's), creado and
\* actualizado set to the same timestamp, every string field trimmed, and
\* each of the four array fields as an array, empty when the body omitted it.
C19_RegistroCreado ==
  \A p \in Procs :
    (Resuelto(p, {"crearEntidad"}) /\ inv[p].resultado.ok)
      => LET registro == inv[p].arg
             datos == Datos(p)
         IN /\ Status(p) = 201
            /\ Body(p)["exito"] = Bool(TRUE)
            /\ Body(p)["datos"] = ObjOf(registro)
            /\ registro \in tablaDynamo
            /\ Cardinality({it \in tablaDynamo : it["id"] = registro["id"]}) = 1
            /\ registro["id"].t = "string"
            /\ registro["id"].v \in Uuids
            /\ registro["creado"] = registro["actualizado"]
            /\ registro["creado"].t = "string"
            /\ ~DateOf(registro["creado"]).nan
            /\ \A k \in Campos :
                 registro[k].t = "string" => registro[k].v = Trim(registro[k].v)
            /\ \A k \in Campos \ {"id", "creado", "actualizado", "genero"} :
                 datos[k].t = "string" => registro[k] = Str(Trim(datos[k].v))
            /\ \A k \in Range(camposArray) :
                 /\ IsArray(registro[k])
                 /\ datos[k] = Undefined => registro[k] = Arr(<<>>)
                 /\ IsArray(datos[k]) => registro[k] = datos[k]

\* a body with an untrimmed nombre, an id, a creado and an actualizado of its
\* own, one array field given and three omitted was created
C19_Witness ==
  \E p \in Procs :
    /\ Resuelto(p, {"crearEntidad"})
    /\ Status(p) = 201
    /\ Datos(p)["nombre"] = Str(<<" ", "Y", "o", "d", "a">>)
    /\ Datos(p)["id"] = Str(<<"m", "i", "o">>)
    /\ Datos(p)["peliculas"] = Undefined
    /\ inv[p].arg["nombre"] = Str(<<"Y", "o", "d", "a">>)
    /\ inv[p].arg["peliculas"] = Arr(<<>>)
    /\ inv[p].arg \in tablaDynamo

\* C20: every record in the store has a non-empty identifier and a non-empty
\* name, the name as sanitation's trimming left it.
C20_IdYNombre ==
  \A it \in tablaDynamo :
    /\ it["id"].t = "string"
    /\ it["id"].v # <<>>
    /\ it["nombre"].t = "string"
    /\ it["nombre"].v # <<>>
    /\ it["nombre"].v = Trim(it["nombre"].v)

\* a record was stored for a body whose nombre had blanks around it
C20_Witness ==
  \E p \in Procs :
    /\ Resuelto(p, {"crearEntidad"})
    /\ Status(p) = 201
    /\ Datos(p)["nombre"] = Str(<<" ", "T", "e", "s", "t", " ">>)
    /\ \E it \in tablaDynamo : it["id"] = inv[p].arg["id"] /\ it["nombre"] = Test

\* C21: in the get-local handler, for an id that passed validation, the store
\* is queried once with the id of the path, unchanged; when the store answers
\* and holds a record under that id the response is 200 with exactly that
\* record as datos; when it holds none the response is 404 'Not Found' with
\* the id as idBuscado and a suggestion.
C21_ObtenerPorId ==
  [][\A p \in Procs :
       (/\ inv[p].handler = "obtenerPersonaje"
        /\ inv[p].pc = "awaiting"
        /\ inv'[p].pc = "done"
        /\ inv'[p].resultado.ok)
         => LET id == PathId(inv[p].event)
                resp == inv'[p].resp
            IN /\ id.t = "string"
               /\ Trim(id.v) # <<>>
               /\ inv[p].arg = id
               /\ inv'[p].arg = id
               /\ inv[p].llamadas = 1
               /\ inv'[p].llamadas = 1
               /\ IF \E it \in tablaDynamo : it["id"] = id
                    THEN /\ resp.statusCode = 200
                         /\ resp.body["exito"] = Bool(TRUE)
                         /\ \E it \in tablaDynamo :
                              it["id"] = id /\ resp.body["datos"] = ObjOf(it)
                    ELSE /\ inv'[p].resultado.value = Null
                         /\ resp.statusCode = 404
                         /\ resp.body["error"] = NotFound
                         /\ resp.body["idBuscado"] = id
                         /\ "sugerencia" \in DOMAIN resp.body
                         /\ "datos" \notin DOMAIN resp.body]_vars

\* one get-by-id found the record stored under its id and returned it; another,
\* whose id is the same text followed by a blank, found none and was answered
\* 404 with that id echoed as it came
C21_Witness ==
  \E p, q \in Procs :
    /\ Resuelto(p, {"obtenerPersonaje"})
    /\ Resuelto(q, {"obtenerPersonaje"})
    /\ Status(p) = 200
    /\ inv[p].arg = Str(<<"u", "1">>)
    /\ Body(p)["datos"].t = "object"
    /\ Body(p)["datos"].v \in tablaDynamo
    /\ inv[q].resultado = [ok |-> TRUE, value |-> Null]
    /\ IsError(q, 404, NotFound)
    /\ Body(q)["idBuscado"] = Str(<<"u", "1", " ">>)

\* the error category of a failure status
Categoria(status) ==
  CASE status = 400 -> BadRequest
    [] status = 404 -> NotFound
    [] status = 409 -> Str(<<"Conflict">>)
    [] status = 503 -> ServiceUnavailable
    [] status = 500 -> InternalServerError

\* C22: each of the four handlers, on every path (validation, success, a
\* failure of the awaited call, an exception caught on the way), returns a
\* response of statusCode, headers and body, the headers being Content-Type
\* application/json, Access-Control-Allow-Origin '*' and
\* Access-Control-Allow-Credentials true and the body JSON; the body of an
\* error carries error and mensaje, error being the category of the status
\* (400 Bad Request, 404 Not Found, 409 Conflict, 503 Service Unavailable,
\* 500 Internal Server Error).
C22_RespuestaUniforme ==
  \A p \in Procs :
    /\ inv[p].pc \in {"idle", "awaiting", "done"}
    /\ inv[p].pc # "done" => inv[p].resp = NoResp
    /\ inv[p].pc = "done"
         => LET resp == inv[p].resp
            IN /\ inv[p].handler \in {"crearEntidad", "obtenerPersonaje",
                                      "listarPersonajes", "getPersonaje"}
               /\ DOMAIN resp = {"statusCode", "headers", "body"}
               /\ DOMAIN resp.headers =
                    {"ContentType", "AccessControlAllowOrigin", "AccessControlAllowCredentials"}
               /\ resp.headers.ContentType = "application/json"
               /\ resp.headers.AccessControlAllowOrigin = "*"
               /\ resp.headers.AccessControlAllowCredentials = TRUE
               /\ \A k \in DOMAIN resp.body : resp.body[k].t # "undefined"
               /\ resp.statusCode \in {200, 201, 400, 404, 409, 500, 503}
               /\ resp.statusCode >= 400
                    => /\ {"error", "mensaje"} \subseteq DOMAIN resp.body
                       /\ resp.body["error"] = Categoria(resp.statusCode)
                       /\ resp.body["mensaje"].t = "string"
                       /\ resp.body["mensaje"].v # <<>>
               /\ resp.statusCode < 400 => "error" \notin DOMAIN resp.body

\* a create request whose validation threw was answered 500 without a store
\* call, and a catalog request that got no answer was answered 503
C22_Witness ==
  \E p, q \in Procs :
    /\ inv[p].handler = "crearEntidad"
    /\ inv[p].llamadas = 0
    /\ IsError(p, 500, InternalServerError)
    /\ Resuelto(q, {"getPersonaje"})
    /\ ~inv[q].resultado.ok
    /\ IsError(q, 503, ServiceUnavailable)
    /\ inv[q].resp.headers.AccessControlAllowCredentials = TRUE

\* x is a non-null object
EsObjeto(x) == x.t \notin {"undefined", "null"} /\ TypeOf(x) = "object"

\* the own fields of an object, those of an array being its indices
CamposPropios(x) ==
  IF IsArray(x) THEN [i \in 1..Len(x.v) |-> [k |-> DigitChars[i], v |-> x.v[i]]]
  ELSE x.entries

\* a field value as the claim translates it: element by element for an array
ValorTraducido(v) ==
  IF IsArray(v) THEN Arr([j \in 1..Len(v.v) |-> translateValue(v.v[j])])
  ELSE translateValue(v)

\* the mapper call of fn has returned
Retornado(fn) == mapper.fn = fn /\ mapper.hecho

\* C23: mapPersonajeToEspanol returns, for a non-null object, an object with
\* exactly one field per field of the input, in the input's order, each named
\* by translateFieldName and holding the translateValue of the value (of each
\* element, for an array); for null, undefined and any non-object it returns
\* null.
C23_UnCampoPorCampo ==
  Retornado("mapPersonajeToEspanol")
    => IF EsObjeto(mapper.arg)
         THEN LET campos == CamposPropios(mapper.arg)
                  salida == mapper.ret
              IN /\ salida.t = "object"
                 /\ Len(salida.entries) = Len(campos)
                 /\ \A i \in 1..Len(campos) :
                      /\ salida.entries[i].k =
                           PropertyKey(translateFieldName(Str(<<campos[i].k>>)))
                      /\ salida.entries[i].v = ValorTraducido(campos[i].v)
         ELSE mapper.ret = Null

\* C24: translateFieldName returns the mapped name for each of the sixteen
\* names of the map and its argument for everything else: any other name,
\* undefined, null.
C24_NombreDeCampo ==
  /\ Cardinality(DOMAIN PERSONAJE_FIELD_MAP) = 16
  /\ Retornado("translateFieldName")
       => LET fieldName == mapper.arg
          IN IF /\ fieldName.t = "string"
                /\ fieldName.v # <<>>
                /\ fieldName.v[1] \in DOMAIN PERSONAJE_FIELD_MAP
               THEN mapper.ret = Str(<<PERSONAJE_FIELD_MAP[fieldName.v[1]]>>)
               ELSE mapper.ret = fieldName

UpperChar(c) == IF InChars(c, LowerChars) THEN UpperChars[PosIn(c, LowerChars)] ELSE c

\* String.prototype.toUpperCase
ToUpperCase(s) == [i \in 1..Len(s) |-> UpperChar(s[i])]

\* the keys of VALUE_TRANSLATIONS that equal s
ClavesDeValor(s) == {i \in 1..Len(VALUE_TRANSLATIONS) : VALUE_TRANSLATIONS[i].k = s}

\* C25: translateValue returns, for a string whose lower-cased form is a key
\* of VALUE_TRANSLATIONS, the value under that key, the same as for the
\* string in upper case; every other string, and every value that is not a
\* string, is returned as it is.
C25_ValorSinDistinguirCaja ==
  Retornado("translateValue")
    => LET value == mapper.arg
       IN IF value.t = "string" /\ ClavesDeValor(ToLowerCase(value.v)) # {}
            THEN /\ \E i \in ClavesDeValor(ToLowerCase(value.v)) :
                      mapper.ret = Str(VALUE_TRANSLATIONS[i].v)
                 /\ translateValue(Str(ToUpperCase(value.v))) = mapper.ret
            ELSE mapper.ret = value

\* C26: mapPersonajesToEspanol returns [] for a value that is not an array,
\* and for an array the translations of exactly its elements that are
\* non-null objects, in their order.
C26_SoloObjetos ==
  Retornado("mapPersonajesToEspanol")
    => IF ~IsArray(mapper.arg) THEN mapper.ret = Arr(<<>>)
       ELSE mapper.ret =
              Arr(MapSeq(SelectSeq(mapper.arg.v, EsObjeto), mapPersonajeToEspanol))

\* an array of null, a record and an empty array gave two objects: the
\* translation of the record and that of the empty array
C26_Witness ==
  /\ Retornado("mapPersonajesToEspanol")
  /\ mapper.arg = Arr(<<Null, Luke, Arr(<<>>)>>)
  /\ Len(mapper.ret.v) = 2
  /\ mapper.ret.v[1] = mapPersonajeToEspanol(Luke)
  /\ mapper.ret.v[2] = [t |-> "object", entries |-> <<>>]

\* s is some text, a '/', the digits d and nothing more, or one '/' more
TerminaEnNumeral(s, d) ==
  /\ d # <<>>
  /\ AllIn(d, DigitChars)
  /\ \E cola \in {<<>>, <<"/">>} :
       /\ Len(s) >= Len(d) + 1 + Len(cola)
       /\ SubSeq(s, Len(s) - Len(d) - Len(cola), Len(s)) = <<"/">> \o d \o cola

\* C27: extractIdFromUrl returns the digits at the end of its argument when
\* the argument is a string that ends in '/', digits and at most one more
\* '/'; it returns null for every other string and for every value that is
\* not a string.
C27_NumeralFinal ==
  Retornado("extractIdFromUrl")
    => LET url == mapper.arg
           numerales == IF url.t # "string" THEN {}
                        ELSE {d \in {SubSeq(url.v, i, j) : i, j \in 1..Len(url.v)} :
                                TerminaEnNumeral(url.v, d)}
       IN IF numerales = {} THEN mapper.ret = Null
          ELSE /\ Cardinality(numerales) = 1
               /\ mapper.ret.t = "string"
               /\ mapper.ret.v \in numerales

\* a url with a numeral in the middle and another at the end, before a final
\* '/', gave the one at the end
C27_Witness ==
  /\ Retornado("extractIdFromUrl")
  /\ mapper.arg = Str(<<"/", "1", "/", "2", "/">>)
  /\ mapper.ret = Str(<<"2">>)

\* C28: when the get-external handler has called the client, exactly one
\* request has gone to the catalog when the handler returns; a catalog answer
\* of status 404 ends as handler status 404, no answer at all (the 10 s
\* timeout included) as 503, and an answer of any other status outside 2xx
\* (403 for one) as 500.
C28_ClienteYHandler ==
  [][\A p \in Procs :
       (/\ inv[p].handler = "getPersonaje"
        /\ inv[p].pc = "awaiting"
        /\ inv'[p].pc = "done")
         => /\ inv'[p].llamadas = 1
            /\ inv'[p].peticiones = 1
            /\ \A outcome \in Catalogo :
                 inv'[p].resultado = Settlement(getPersonajeById(inv[p].arg, outcome))
                   => LET status == inv'[p].resp.statusCode
                      IN /\ outcome.kind = "request" => status = 503
                         /\ (outcome.kind = "response" /\ outcome.status = 404)
                              => status = 404
                         /\ (/\ outcome.kind = "response"
                             /\ outcome.status \notin 200..299
                             /\ outcome.status # 404)
                              => status = 500]_vars

\* C29: the id, creado and actualizado of a record are the ones the create
\* handler assigns (a minted identifier, the clock reading for both
\* timestamps), whatever the body brought under those names; the record put,
\* stored and returned with 201 is that one, so a value of the body for id,
\* creado or actualizado is never stored nor returned.
C29_SelloDelServidor ==
  [][/\ \A p \in Procs :
          /\ (/\ inv[p].pc = "idle"
              /\ inv'[p].handler = "crearEntidad"
              /\ inv'[p].pc = "awaiting")
               => LET registro == inv'[p].arg
                  IN /\ registro["id"].t = "string"
                     /\ registro["id"].v \in Uuids
                     /\ registro["creado"] = Str(ToISOString(reloj))
                     /\ registro["actualizado"] = registro["creado"]
          /\ (/\ inv[p].handler = "crearEntidad"
              /\ inv[p].pc = "awaiting"
              /\ inv'[p].pc = "done")
               => /\ inv'[p].arg = inv[p].arg
                  /\ tablaDynamo' \subseteq tablaDynamo \cup {inv[p].arg}
                  /\ inv'[p].resp.statusCode = 201
                       => /\ inv'[p].resp.body["datos"] = ObjOf(inv[p].arg)
                          /\ inv[p].arg \in tablaDynamo'
          /\ (inv'[p].handler = "crearEntidad" /\ inv'[p].pc = "done")
               => ("datos" \in DOMAIN inv'[p].resp.body => inv'[p].resp.statusCode = 201)
     /\ \A it \in tablaDynamo' :
          /\ it["id"].t = "string"
          /\ it["id"].v \in Uuids
          /\ \E t \in 1..reloj' : it["creado"] = Str(ToISOString(t))
          /\ it["actualizado"] = it["creado"]]_vars

\* a body that brought an id, a creado and an actualizado of its own was
\* created after the clock had advanced: the record stored and returned has
\* the minted id and the clock reading
C29_Witness ==
  \E p \in Procs :
    /\ Resuelto(p, {"crearEntidad"})
    /\ Status(p) = 201
    /\ Datos(p)["id"] = Str(<<"m", "i", "o">>)
    /\ Datos(p)["creado"] = Str(ToISOString(9))
    /\ Datos(p)["actualizado"] = Num(7)
    /\ Body(p)["datos"].v \in tablaDynamo
    /\ Body(p)["datos"].v["id"].v \in Uuids
    /\ Body(p)["datos"].v["creado"] = Str(ToISOString(2))
    /\ Body(p)["datos"].v["actualizado"] = Str(ToISOString(2))

\* p, suspended on the call of `handler`, returns in this step, its call
\* having resolved
Resuelve(p, handler) ==
  /\ inv[p].handler = handler
  /\ inv[p].pc = "awaiting"
  /\ inv'[p].pc = "done"
  /\ inv'[p].resultado.ok

=============================================================================
